---- MODULE Spec2Model ----
(***************************************************************************)
(* Resource governance layer of wayl: the sliding-window rate limiter      *)
(* (wayl/core/rate_limiter.py), the circuit breaker                        *)
(* (wayl/api/middleware/circuit_breaker.py), the cache manager             *)
(* (wayl/core/cache_manager.py) and the model lifecycle manager            *)
(* (wayl/core/model.py).                                                   *)
(*                                                                         *)
(* Time is an integer clock `now`; every time.time() / datetime.utcnow()   *)
(* reads it.  Two reads with no Tick in between return the same instant,   *)
(* as two reads within the clock's resolution do.  Each component has its  *)
(* own specification (SpecRL, SpecCB, SpecCache, SpecMM) over the shared   *)
(* clock; a component's variables do not change under another's.  SpecMM   *)
(* is the manager as the services call it (get_model, then load);          *)
(* SpecHandle is the handles' own interface (load, unload) on a pool that  *)
(* needs no eviction.                                                      *)
(*                                                                         *)
(* Scheduling is asyncio's: a coroutine runs until it awaits something     *)
(* that is not ready.  Awaits of the coordination store and of the wrapped  *)
(* operation are suspension points; code between two of them is one step.  *)
(* The model backend's load and release are synchronous calls in model.py; *)
(* mmYield chooses between that and a backend that hands control back to   *)
(* the event loop while it loads or releases (the handle's lock held).     *)
(***************************************************************************)
EXTENDS Integers, Sequences, FiniteSets, TLC

VARIABLES
    now,        \* the clock
    \* ---- RateLimiter
    rlRedis,    \* self.redis is set (shared-store backend) or None (local)
    rlArgs,     \* the limit and window (and the keys and costs) the callers pass
    rlLocal,    \* self._local_cache: full_key -> {timestamp -> cost}
    rlStore,    \* the store's sorted sets: full_key -> [z: member -> score, exp]
    rlPc,       \* each caller's position in check_rate_limit
    rlPend,     \* the (key, cost) of the check a caller is in
    rlLast,     \* what the last _get_rate_limit of a check returned / decided
    rlTruth,    \* history: key -> {timestamp -> total cost recorded as allowed}
    rlCalls,    \* history: key -> number of checks started
    rlOverlap,  \* history: a check started while another was in progress
    rlFaults,   \* history: number of store operations that raised
    rlMirror,   \* two limiters side by side: the local one's answer to the call
                \* the store-backed one is given next
    rlStatus,   \* what the last get_limit_status returned
    \* ---- CircuitBreaker
    cbRedis,    \* self.redis is set (shared-store backend) or None (local)
    cbLocal,    \* self._local_state: service -> state_data dict
    cbStore,    \* the store: key -> value (the state key, the failure counter key)
    cbPc,       \* each caller's position in CircuitBreaker.call
    cbLoc,      \* each caller's locals: failures read, whether it is the trial
    cbStreak,   \* history: consecutive failed operations (capped)
    cbFresh,    \* history: consecutive failures each counted < reset_timeout apart
    cbRecAt,    \* history: when _increment_failures last returned
    cbOpenedAt, \* history: when the state was last set to Open
    cbFailAt,   \* history: when the last failed call finished
    cbOverlap,  \* history: a call started while another was in progress
    cbSlow,     \* history: the clock moved between a failure's INCR and its EXPIRE
    cbEv,       \* history: the last decision or completion of a call
    \* ---- CacheManager
    caRedis,    \* self.redis is set (shared-store backend) or None (local)
    caLocal,    \* self._local_cache: full_key -> {value, expires_at, tags}
    caStr,      \* the store's string keys: full_key -> [val, exp]
    caSets,     \* the store's tag sets: tag_key -> [members, exp]
    caPc,       \* the caller's position (delete_by_tag and clear await twice)
    caKeys,     \* the keys the caller read from the store (smembers / keys)
    caDue,      \* history: key -> [v, due] of its last set, until it is deleted
    caTagsOf,   \* history: key -> the tags its last set carried
    caEv,       \* history: what the last get / delete_by_tag did
    \* ---- ModelManager and DeepseekModel
    mmYield,    \* the backend's load / release hand control back to the event loop
    mmInstances,\* cls._instances, in insertion order: <<[id, h], ...>>
    mmHeap,     \* the DeepseekModel objects: h -> [model_id, model, last_used, lock]
    mmPc,       \* each caller's position
    mmLoc,      \* each caller's locals, and the handle get_model returned to it
    mmRecency,  \* history: the pool's ids, least recently requested first
    mmEv,       \* history: how the last load / unload ended (kept in SpecHandle)
    \* ---- CachePolicy
    cp,         \* the policy object: strategy, max_size, ttl_seconds,
                \* update_interval, _last_update, _hit_counts, _access_times
    cpEv,       \* history: what the last should_cache / should_evict answered
    \* ---- RateLimitMiddleware
    mwArgs,     \* what the deployment fixes: the users' rate_limit, RATE_LIMIT_WINDOW
    mwStore,    \* the store's counters: key -> [val, exp]
    mwEv        \* history: how the last dispatch ended

rlVars == <<rlRedis, rlArgs, rlLocal, rlStore, rlPc, rlPend, rlLast, rlTruth, rlCalls,
            rlOverlap, rlFaults, rlMirror, rlStatus>>

cbVars == <<cbRedis, cbLocal, cbStore, cbPc, cbLoc, cbStreak, cbFresh, cbRecAt,
            cbOpenedAt, cbFailAt, cbOverlap, cbSlow, cbEv>>

cpVars == <<cp, cpEv>>

mwVars == <<mwArgs, mwStore, mwEv>>

caVars == <<caRedis, caLocal, caStr, caSets, caPc, caKeys, caDue, caTagsOf, caEv>>

mmVars == <<mmYield, mmInstances, mmHeap, mmPc, mmLoc, mmRecency, mmEv>>

(***************************************************************************)
(* Bounds                                                                  *)
(***************************************************************************)
MaxTime == 3
\* checks started beyond the limit, over all keys
ExtraCalls == 1
\* the cache's default_ttl
DefaultTtl == 2
\* store operations of the rate limiter that raise in one run
MaxFaults == 1
\* hits the policy counts for one key
MaxHits == 2
\* clock readings beyond the first that last_used can take
MaxStamp == 1

None == "None"

\* SUM of the values of a function with a finite domain
RECURSIVE SumOver(_, _)
SumOver(f, S) ==
    IF S = {} THEN 0
    ELSE LET x == CHOOSE y \in S : TRUE IN f[x] + SumOver(f, S \ {x})

SumF(f) == SumOver(f, DOMAIN f)

MinOf(S) == CHOOSE x \in S : \A y \in S : x <= y

Max0(a) == IF a > 0 THEN a ELSE 0

EmptyF == [x \in {} |-> 0]

\* d[k] = v, as a Python dict assignment: the key is added or overwritten
DictSet(d, k, v) == [x \in (DOMAIN d) \cup {k} |-> IF x = k THEN v ELSE d[x]]

DictDel(d, S) == [x \in (DOMAIN d) \ S |-> d[x]]

Tick(span) ==
    /\ now < span
    /\ now' = now + 1

(***************************************************************************)
(* RateLimiter                                                             *)
(***************************************************************************)
RLProcs == {"c1", "c2"}
RLKeys == {"u1", "u2"}
\* what the callers of one run pass: a small limit and window on two keys with
\* costs 1 and 2, or the end-to-end scenario's check(key, 5, 60) on one key
RLConfigs ==
    { [limit |-> 2, window |-> 2, keys |-> RLKeys, costs |-> {1, 2}, span |-> MaxTime],
      [limit |-> 5, window |-> 60, keys |-> {"u1"}, costs |-> {1}, span |-> MaxTime + 1] }

\* f"{self.prefix}:{key}"
FullKey(key) == <<"ratelimit", key>>

\* str(current_time): the member name of a request in the sorted set
Member(t) == ToString(t)

NoRes == [key |-> None, allowed |-> FALSE, current |-> 0, reset_at |-> 0,
          at |-> 0, cost |-> 0, truth |-> 0, failed |-> FALSE]

NoMirror == [res |-> NoRes, done |-> FALSE]

NoStatus == [key |-> None, limit |-> 0, remaining |-> 0, reset_at |-> 0,
             current |-> 0, at |-> 0]

\* the store's view of a key: gone once its TTL has run out
RLLive(fk) ==
    IF fk \in DOMAIN rlStore /\ (rlStore[fk].exp = -1 \/ now < rlStore[fk].exp)
    THEN rlStore[fk].z
    ELSE EmptyF

\* store with the sorted set of fk replaced by z (an empty sorted set is deleted)
RLPut(fk, z, exp) ==
    IF DOMAIN z = {} THEN DictDel(rlStore, {fk})
    ELSE DictSet(rlStore, fk, [z |-> z, exp |-> exp])

RLExp(fk) ==
    IF fk \in DOMAIN rlStore /\ (rlStore[fk].exp = -1 \/ now < rlStore[fk].exp)
    THEN rlStore[fk].exp
    ELSE -1

\* the purge taking the entry at window_start as well
LocalPurged_Inclusive(fk, window, t) ==
    LET requests == IF fk \in DOMAIN rlLocal THEN rlLocal[fk] ELSE EmptyF
    IN  DictDel(requests, {ts \in DOMAIN requests : ts <= t - window})

\* _get_local_rate_limit: purge ts < window_start, sum the costs
LocalPurged(fk, window, t) ==
    LET requests == IF fk \in DOMAIN rlLocal THEN rlLocal[fk] ELSE EmptyF
    IN  DictDel(requests, {ts \in DOMAIN requests : ts < t - window})

LocalRateLimit(fk, window, t) ==
    LET requests == LocalPurged(fk, window, t)
        oldest == IF DOMAIN requests # {} THEN MinOf(DOMAIN requests) ELSE t
    IN  [current |-> SumF(requests), reset_at |-> oldest + window]

\* _get_redis_rate_limit: ZREMRANGEBYSCORE -inf..window_start (inclusive),
\* ZCOUNT window_start..+inf, ZRANGE 0 0 WITHSCORES
RedisPurged(fk, window, t) ==
    LET z == RLLive(fk)
    IN  DictDel(z, {m \in DOMAIN z : z[m] <= t - window})

RedisRateLimit(fk, window, t) ==
    LET z == RedisPurged(fk, window, t)
        scores == {z[m] : m \in DOMAIN z}
        count == Cardinality({m \in DOMAIN z : z[m] >= t - window})
        oldest == IF scores # {} THEN MinOf(scores) ELSE t
    IN  [current |-> count, reset_at |-> oldest + window]

\* history: the cost of the requests on key that were allowed and recorded at
\* an instant not older than window at t
TruthInWindow(key, window, t) ==
    LET h == rlTruth[key]
    IN  SumOver(h, {ts \in DOMAIN h : ts >= t - window})

\* check_rate_limit after the decision, going on to _increment even when denied
AfterDecision_Always(ok) == "increment"

\* check_rate_limit after the decision: raise the 429, or go on to _increment
AfterDecision(ok) == IF ok THEN "increment" ELSE "idle"

\* check_rate_limit up to the decision: _get_rate_limit, then 429 or go on
RLCheck(p, key, cost) ==
    LET fk == FullKey(key)
        w == rlArgs.window
        rl == IF rlRedis THEN RedisRateLimit(fk, w, now) ELSE LocalRateLimit(fk, w, now)
        ok == ~(rl.current + cost > rlArgs.limit)
    IN  /\ rlPc[p] = "idle"
        \* the local backend awaits nothing: a check runs to its end
        /\ rlRedis \/ \A q \in RLProcs : rlPc[q] = "idle"
        /\ SumF(rlCalls) < rlArgs.limit + ExtraCalls
        /\ IF rlRedis
           THEN /\ rlStore' = RLPut(fk, RedisPurged(fk, w, now), RLExp(fk))
                /\ UNCHANGED rlLocal
           ELSE /\ rlLocal' = DictSet(rlLocal, fk, LocalPurged(fk, w, now))
                /\ UNCHANGED rlStore
        /\ rlLast' = [key |-> key, allowed |-> ok, current |-> rl.current,
                      reset_at |-> rl.reset_at, at |-> now, cost |-> cost,
                      truth |-> TruthInWindow(key, w, now), failed |-> FALSE]
        /\ rlCalls' = [rlCalls EXCEPT ![key] = @ + 1]
        /\ rlOverlap' = (rlOverlap \/ \E q \in RLProcs : rlPc[q] # "idle")
        /\ rlPc' = [rlPc EXCEPT ![p] = AfterDecision(ok)]
        /\ rlPend' = [rlPend EXCEPT ![p] = IF ok THEN [key |-> key, cost |-> cost]
                                            ELSE [key |-> None, cost |-> 0]]
        /\ UNCHANGED <<now, rlRedis, rlArgs, rlTruth, rlFaults>>

\* _increment, local: self._local_cache[full_key][current_time] = cost
LocalIncrement(fk, t, cost) ==
    DictSet(rlLocal, fk,
            DictSet(IF fk \in DOMAIN rlLocal THEN rlLocal[fk] ELSE EmptyF, t, cost))

\* _increment, shared store: ZADD full_key {str(current_time): current_time}
RedisZadd(fk, t) == RLPut(fk, DictSet(RLLive(fk), Member(t), t), RLExp(fk))

RLIncrement(p) ==
    LET key == rlPend[p].key
        fk == FullKey(key)
        h == rlTruth[key]
    IN  /\ rlPc[p] = "increment"
        /\ IF rlRedis
           THEN /\ rlStore' = RedisZadd(fk, now)
                /\ rlPc' = [rlPc EXCEPT ![p] = "expire"]
                /\ UNCHANGED <<rlLocal, rlPend>>
           ELSE /\ rlLocal' = LocalIncrement(fk, now, rlPend[p].cost)
                /\ rlPc' = [rlPc EXCEPT ![p] = "idle"]
                /\ rlPend' = [rlPend EXCEPT ![p] = [key |-> None, cost |-> 0]]
                /\ UNCHANGED rlStore
        /\ rlTruth' = [rlTruth EXCEPT ![key] =
                          DictSet(h, now, (IF now \in DOMAIN h THEN h[now] ELSE 0)
                                          + rlPend[p].cost)]
        /\ UNCHANGED <<now, rlRedis, rlArgs, rlLast, rlCalls, rlOverlap, rlFaults>>

\* _increment, shared store: EXPIRE full_key window
RLExpire(p) ==
    LET fk == FullKey(rlPend[p].key)
    IN  /\ rlPc[p] = "expire"
        /\ rlStore' = IF DOMAIN RLLive(fk) = {} THEN DictDel(rlStore, {fk})
                      ELSE RLPut(fk, RLLive(fk), now + rlArgs.window)
        /\ rlPc' = [rlPc EXCEPT ![p] = "idle"]
        /\ rlPend' = [rlPend EXCEPT ![p] = [key |-> None, cost |-> 0]]
        /\ UNCHANGED <<now, rlRedis, rlArgs, rlLocal, rlLast, rlTruth, rlCalls, rlOverlap,
                       rlFaults>>

\* check_rate_limit's `except Exception`, answering with a rejection
FailOpen_Reject(key, cost, t) ==
    [key |-> key, allowed |-> FALSE, current |-> 0, reset_at |-> t + rlArgs.window,
     at |-> t, cost |-> cost, truth |-> TruthInWindow(key, rlArgs.window, t),
     failed |-> TRUE]

\* check_rate_limit's `except Exception`: RateLimit(key, limit, window, 0,
\* time.time() + window) is returned, the request goes through
FailOpen(key, cost, t) ==
    [key |-> key, allowed |-> TRUE, current |-> 0, reset_at |-> t + rlArgs.window,
     at |-> t, cost |-> cost, truth |-> TruthInWindow(key, rlArgs.window, t),
     failed |-> TRUE]

\* a store operation raises (connection lost, timeout): only the shared-store
\* backend has any, and the number of faults in a run is bounded
StoreFault == rlRedis /\ rlFaults < MaxFaults /\ rlFaults' = rlFaults + 1

\* check_rate_limit when pipe.execute() raises; the store has run the pipeline
\* (the answer was lost) or has not
RLCheckFails(p, key, cost, applied) ==
    LET fk == FullKey(key)
    IN  /\ rlPc[p] = "idle"
        /\ SumF(rlCalls) < rlArgs.limit + ExtraCalls
        /\ StoreFault
        /\ rlStore' = IF applied
                      THEN RLPut(fk, RedisPurged(fk, rlArgs.window, now), RLExp(fk))
                      ELSE rlStore
        /\ rlLast' = FailOpen(key, cost, now)
        /\ rlCalls' = [rlCalls EXCEPT ![key] = @ + 1]
        /\ rlOverlap' = (rlOverlap \/ \E q \in RLProcs : rlPc[q] # "idle")
        /\ UNCHANGED <<now, rlRedis, rlArgs, rlLocal, rlPc, rlPend, rlTruth>>

\* check_rate_limit when _increment's ZADD raises: EXPIRE is skipped
RLIncrementFails(p, applied) ==
    LET key == rlPend[p].key
        fk == FullKey(key)
        h == rlTruth[key]
    IN  /\ rlPc[p] = "increment"
        /\ StoreFault
        /\ rlStore' = IF applied THEN RedisZadd(fk, now) ELSE rlStore
        /\ rlTruth' = IF applied
                      THEN [rlTruth EXCEPT ![key] =
                               DictSet(h, now, (IF now \in DOMAIN h THEN h[now] ELSE 0)
                                               + rlPend[p].cost)]
                      ELSE rlTruth
        /\ rlLast' = FailOpen(key, rlPend[p].cost, now)
        /\ rlPc' = [rlPc EXCEPT ![p] = "idle"]
        /\ rlPend' = [rlPend EXCEPT ![p] = [key |-> None, cost |-> 0]]
        /\ UNCHANGED <<now, rlRedis, rlArgs, rlLocal, rlCalls, rlOverlap>>

\* check_rate_limit when _increment's EXPIRE raises
RLExpireFails(p, applied) ==
    LET key == rlPend[p].key
        fk == FullKey(key)
    IN  /\ rlPc[p] = "expire"
        /\ StoreFault
        /\ rlStore' = IF ~applied THEN rlStore
                      ELSE IF DOMAIN RLLive(fk) = {} THEN DictDel(rlStore, {fk})
                      ELSE RLPut(fk, RLLive(fk), now + rlArgs.window)
        /\ rlLast' = FailOpen(key, rlPend[p].cost, now)
        /\ rlPc' = [rlPc EXCEPT ![p] = "idle"]
        /\ rlPend' = [rlPend EXCEPT ![p] = [key |-> None, cost |-> 0]]
        /\ UNCHANGED <<now, rlRedis, rlArgs, rlLocal, rlTruth, rlCalls, rlOverlap>>

RLInitWith(backends, configs) ==
    /\ rlRedis \in backends
    /\ rlArgs \in configs
    /\ rlLocal = EmptyF
    /\ rlStore = EmptyF
    /\ rlPc = [p \in RLProcs |-> "idle"]
    /\ rlPend = [p \in RLProcs |-> [key |-> None, cost |-> 0]]
    /\ rlLast = NoRes
    /\ rlTruth = [k \in RLKeys |-> EmptyF]
    /\ rlCalls = [k \in RLKeys |-> 0]
    /\ rlOverlap = FALSE
    /\ rlFaults = 0
    /\ rlMirror = NoMirror
    /\ rlStatus = NoStatus

RLInit == RLInitWith(BOOLEAN, RLConfigs)

\* a limiter nobody calls
RLUnused == RLInitWith({FALSE}, {CHOOSE c \in RLConfigs : c.limit = 2})

RLTick == Tick(rlArgs.span) /\ UNCHANGED rlVars

RLNext ==
    \/ \E p \in RLProcs, key \in rlArgs.keys, cost \in rlArgs.costs :
            RLCheck(p, key, cost) /\ UNCHANGED <<rlMirror, rlStatus, cbVars, caVars, mmVars, cpVars, mwVars>>
    \/ \E p \in RLProcs : RLIncrement(p) /\ UNCHANGED <<rlMirror, rlStatus, cbVars, caVars, mmVars, cpVars, mwVars>>
    \/ \E p \in RLProcs : RLExpire(p) /\ UNCHANGED <<rlMirror, rlStatus, cbVars, caVars, mmVars, cpVars, mwVars>>
    \/ RLTick /\ UNCHANGED <<rlMirror, rlStatus, cbVars, caVars, mmVars, cpVars, mwVars>>

\* get_limit_status: _get_rate_limit (one pipeline on the store, one locked
\* block locally), then the dict with remaining = max(0, limit - current)
RLStatus(p, key) ==
    LET fk == FullKey(key)
        w == rlArgs.window
        rl == IF rlRedis THEN RedisRateLimit(fk, w, now) ELSE LocalRateLimit(fk, w, now)
    IN  /\ rlPc[p] = "idle"
        /\ rlRedis \/ \A q \in RLProcs : rlPc[q] = "idle"
        /\ IF rlRedis
           THEN /\ rlStore' = RLPut(fk, RedisPurged(fk, w, now), RLExp(fk))
                /\ UNCHANGED rlLocal
           ELSE /\ rlLocal' = DictSet(rlLocal, fk, LocalPurged(fk, w, now))
                /\ UNCHANGED rlStore
        /\ rlStatus' = [key |-> key, limit |-> rlArgs.limit,
                        remaining |-> Max0(rlArgs.limit - rl.current),
                        reset_at |-> rl.reset_at, current |-> rl.current, at |-> now]
        /\ UNCHANGED <<now, rlRedis, rlArgs, rlPc, rlPend, rlLast, rlTruth, rlCalls,
                       rlOverlap, rlFaults, rlMirror>>

\* the caller of the runs in which the store may fail
RLSolo == {"c1"}

\* what the caller of the status runs passes: one key, costs 1 and 2
RLStatusConfigs ==
    { [limit |-> 2, window |-> 2, keys |-> {"u1"}, costs |-> {1, 2}, span |-> MaxTime] }

RLStatusInit == RLInitWith(BOOLEAN, RLStatusConfigs)

\* one caller's checks with get_limit_status calls in between
RLStatusNext ==
    \/ \E p \in RLSolo, key \in rlArgs.keys, cost \in rlArgs.costs :
            RLCheck(p, key, cost) /\ UNCHANGED <<rlMirror, rlStatus, cbVars, caVars, mmVars, cpVars, mwVars>>
    \/ \E p \in RLSolo : RLIncrement(p) /\ UNCHANGED <<rlMirror, rlStatus, cbVars, caVars, mmVars, cpVars, mwVars>>
    \/ \E p \in RLSolo : RLExpire(p) /\ UNCHANGED <<rlMirror, rlStatus, cbVars, caVars, mmVars, cpVars, mwVars>>
    \/ \E p \in RLSolo, key \in rlArgs.keys :
            RLStatus(p, key) /\ UNCHANGED <<cbVars, caVars, mmVars, cpVars, mwVars>>
    \/ RLTick /\ UNCHANGED <<rlMirror, rlStatus, cbVars, caVars, mmVars, cpVars, mwVars>>

\* one caller, on either backend, and a store whose operations may raise
RLFaultsInit == RLInitWith(BOOLEAN, {c \in RLConfigs : c.limit = 2})

RLFaultsNext ==
    \/ \E p \in RLSolo, key \in rlArgs.keys, cost \in rlArgs.costs :
            RLCheck(p, key, cost) /\ UNCHANGED <<rlMirror, rlStatus, cbVars, caVars, mmVars, cpVars, mwVars>>
    \/ \E p \in RLSolo : RLIncrement(p) /\ UNCHANGED <<rlMirror, rlStatus, cbVars, caVars, mmVars, cpVars, mwVars>>
    \/ \E p \in RLSolo : RLExpire(p) /\ UNCHANGED <<rlMirror, rlStatus, cbVars, caVars, mmVars, cpVars, mwVars>>
    \/ \E p \in RLSolo, key \in rlArgs.keys, cost \in rlArgs.costs, applied \in BOOLEAN :
            RLCheckFails(p, key, cost, applied) /\ UNCHANGED <<rlMirror, rlStatus, cbVars, caVars, mmVars, cpVars, mwVars>>
    \/ \E p \in RLSolo, applied \in BOOLEAN :
            RLIncrementFails(p, applied) /\ UNCHANGED <<rlMirror, rlStatus, cbVars, caVars, mmVars, cpVars, mwVars>>
    \/ \E p \in RLSolo, applied \in BOOLEAN :
            RLExpireFails(p, applied) /\ UNCHANGED <<rlMirror, rlStatus, cbVars, caVars, mmVars, cpVars, mwVars>>
    \/ RLTick /\ UNCHANGED <<rlMirror, rlStatus, cbVars, caVars, mmVars, cpVars, mwVars>>

\* Two limiters given the same calls at the same clock readings: one built
\* without a store (its state is rlLocal), one built on a store (its state is
\* rlStore).  rlRedis says whose turn it is; each call is made on the local one
\* first and then, with the same arguments, on the store-backed one.
RLBothConfigs ==
    { [limit |-> 3, window |-> 2, keys |-> RLKeys, costs |-> {1, 2}, span |-> MaxTime] }

RLBothInit == RLInitWith({FALSE}, RLBothConfigs)

\* the call on the local limiter
RLBothLocalCheck(p, key, cost) ==
    /\ ~rlRedis
    /\ rlMirror = NoMirror
    /\ RLCheck(p, key, cost)
    /\ rlMirror' = [res |-> rlLast', done |-> FALSE]

\* the same call on the store-backed limiter
RLBothStoreCheck(p) ==
    /\ rlRedis
    /\ ~rlMirror.done
    /\ RLCheck(p, rlMirror.res.key, rlMirror.res.cost)
    /\ rlMirror' = [rlMirror EXCEPT !.done = TRUE]

\* the local limiter has answered: the store-backed one is called next
RLBothToStore ==
    /\ ~rlRedis
    /\ rlMirror # NoMirror
    /\ \A p \in RLProcs : rlPc[p] = "idle"
    /\ rlRedis' = TRUE
    /\ UNCHANGED <<now, rlArgs, rlLocal, rlStore, rlPc, rlPend, rlLast, rlTruth, rlCalls,
                   rlOverlap, rlFaults, rlMirror>>

\* both have answered: the next call, or the clock, may go on
RLBothToLocal ==
    /\ rlRedis
    /\ rlMirror.done
    /\ \A p \in RLProcs : rlPc[p] = "idle"
    /\ rlRedis' = FALSE
    /\ rlMirror' = NoMirror
    /\ UNCHANGED <<now, rlArgs, rlLocal, rlStore, rlPc, rlPend, rlLast, rlTruth, rlCalls,
                   rlOverlap, rlFaults>>

RLBothTick == ~rlRedis /\ rlMirror = NoMirror /\ RLTick

RLBothNext ==
    \/ \E p \in RLSolo, key \in rlArgs.keys, cost \in rlArgs.costs :
            RLBothLocalCheck(p, key, cost) /\ UNCHANGED <<rlStatus, cbVars, caVars, mmVars, cpVars, mwVars>>
    \/ \E p \in RLSolo : RLBothStoreCheck(p) /\ UNCHANGED <<rlStatus, cbVars, caVars, mmVars, cpVars, mwVars>>
    \/ \E p \in RLSolo : RLIncrement(p) /\ UNCHANGED <<rlMirror, rlStatus, cbVars, caVars, mmVars, cpVars, mwVars>>
    \/ \E p \in RLSolo : RLExpire(p) /\ UNCHANGED <<rlMirror, rlStatus, cbVars, caVars, mmVars, cpVars, mwVars>>
    \/ RLBothToStore /\ UNCHANGED <<rlStatus, cbVars, caVars, mmVars, cpVars, mwVars>>
    \/ RLBothToLocal /\ UNCHANGED <<rlStatus, cbVars, caVars, mmVars, cpVars, mwVars>>
    \/ RLBothTick /\ UNCHANGED <<rlStatus, cbVars, caVars, mmVars, cpVars, mwVars>>


(***************************************************************************)
(* CircuitBreaker                                                          *)
(***************************************************************************)
CBProcs == {"a", "b"}
\* the service the callers name; state is kept per service
Service == "svc"
\* the breaker's configuration (failure_threshold, reset_timeout)
FailureThreshold == 2
ResetTimeout == 2

CLOSED == "closed"
OPEN == "open"
HALF_OPEN == "half_open"

\* datetime.isoformat() and datetime.fromisoformat()
IsoFormat(t) == <<"iso", t>>
FromIsoFormat(s) == s[2]

\* json.dumps() and json.loads()
JsonDumps(d) == <<"json", d>>
JsonLoads(s) == s[2]

\* _set_state's state_data (failures keeps its default 0 at every call site)
StateData(state, t) ==
    [k \in {"state", "last_failure", "failures"} |->
        CASE k = "state" -> state
          [] k = "last_failure" -> IsoFormat(t)
          [] k = "failures" -> 0]

\* f"{self.prefix}:{service}" and f"{self.prefix}:failures:{service}"
StateKey == <<"circuit", Service>>
FailKey == <<"circuit", "failures", Service>>

\* the failure counter key is in the store: set, and its TTL has not run out
CounterLive ==
    /\ FailKey \in DOMAIN cbStore
    /\ (cbStore[FailKey].exp = -1 \/ now < cbStore[FailKey].exp)

\* get_state; a local dict without 'state' raises KeyError, which is caught
GetState ==
    IF cbRedis
    THEN IF StateKey \in DOMAIN cbStore
         THEN JsonLoads(cbStore[StateKey])["state"] ELSE CLOSED
    ELSE IF Service \in DOMAIN cbLocal /\ "state" \in DOMAIN cbLocal[Service]
         THEN cbLocal[Service]["state"]
         ELSE CLOSED

\* the failures counted for the service
Failures ==
    IF cbRedis
    THEN IF CounterLive THEN cbStore[FailKey].val ELSE 0
    ELSE IF Service \in DOMAIN cbLocal THEN cbLocal[Service]["failures"] ELSE 0

\* _should_attempt_reset's comparison
ElapsedEnough(last_failure, t) == t - FromIsoFormat(last_failure) >= ResetTimeout

\* _should_attempt_reset; any exception in it is caught and answers True
ShouldAttemptReset ==
    LET state_data == IF cbRedis
                      THEN IF StateKey \in DOMAIN cbStore
                           THEN JsonLoads(cbStore[StateKey]) ELSE EmptyF
                      ELSE IF Service \in DOMAIN cbLocal THEN cbLocal[Service] ELSE EmptyF
    IN  IF DOMAIN state_data = {} THEN TRUE
        ELSE IF "last_failure" \notin DOMAIN state_data THEN TRUE
        ELSE ElapsedEnough(state_data["last_failure"], now)

\* _set_state
SetState(state) ==
    IF cbRedis
    THEN /\ cbStore' = DictSet(cbStore, StateKey, JsonDumps(StateData(state, now)))
         /\ UNCHANGED cbLocal
    ELSE /\ cbLocal' = DictSet(cbLocal, Service, StateData(state, now))
         /\ UNCHANGED cbStore

\* the test with a strict comparison: one failure more is needed to open
ReachedThreshold_Strict(failures) == failures > FailureThreshold

\* _handle_failure's test on the count _increment_failures returned
ReachedThreshold(failures) == failures >= FailureThreshold

\* local code runs to its next await of the operation; store calls suspend
CBCanRun(p) ==
    cbRedis \/ \A q \in CBProcs \ {p} : cbPc[q] \in {"idle", "func"}

CapT(n) == IF n > FailureThreshold THEN FailureThreshold ELSE n

\* what call gives its caller: the operation's result, the fallback's result,
\* the operation's exception, or the circuit-open error
Result == <<"return", "result">>
FallbackResult == <<"return", "fallback">>
OriginalException == <<"raise", "original">>
CircuitOpenError(service) == <<"raise", "Circuit breaker is open for service: ", service>>

\* _handle_open_circuit, ignoring the fallback
HandleOpenCircuit_NoFallback(fallback) == CircuitOpenError(Service)

\* _handle_open_circuit
HandleOpenCircuit(fallback) ==
    IF fallback THEN FallbackResult ELSE CircuitOpenError(Service)

\* call's except branch after _handle_failure: if fallback ... raise
OnException(fallback) == IF fallback THEN FallbackResult ELSE OriginalException

NoEv == [ev |-> "none", early |-> FALSE, late |-> FALSE, trial |-> FALSE,
         st |-> CLOSED, fails |-> 0, fb |-> FALSE, out |-> None, counted |-> FALSE]
NoLoc == [failures |-> 0, at |-> 0, trial |-> FALSE, late |-> FALSE]

\* the circuit is Open and the last failed call finished reset_timeout ago or more
LateOpen == GetState = OPEN /\ now - cbFailAt >= ResetTimeout

\* the circuit is Open and reset_timeout has not elapsed since it opened
EarlyOpen == GetState = OPEN /\ now - cbOpenedAt < ResetTimeout

cbHist == <<cbStreak, cbFresh, cbRecAt, cbOpenedAt, cbFailAt, cbOverlap, cbSlow, cbEv>>

\* call: state = await self.get_state(service); the fallback argument is read
\* only where the call ends, and is drawn there
CBCall(p) ==
    /\ cbPc[p] = "idle"
    /\ CBCanRun(p)
    /\ cbPc' = [cbPc EXCEPT ![p] = IF GetState = OPEN THEN "should_reset" ELSE "func"]
    /\ cbLoc' = [cbLoc EXCEPT ![p] = [NoLoc EXCEPT !.late = LateOpen]]
    /\ cbOverlap' = (cbOverlap \/ \E q \in CBProcs \ {p} : cbPc[q] # "idle")
    /\ UNCHANGED <<now, cbRedis, cbLocal, cbStore, cbStreak, cbFresh, cbRecAt,
                   cbOpenedAt, cbFailAt, cbSlow, cbEv>>

\* call: if await self._should_attempt_reset(service) ... else _handle_open_circuit
CBShouldReset(p) ==
    /\ cbPc[p] = "should_reset"
    /\ CBCanRun(p)
    /\ IF ShouldAttemptReset
       THEN /\ cbPc' = [cbPc EXCEPT ![p] = "set_half_open"]
            /\ cbEv' = [NoEv EXCEPT !.ev = "reset", !.early = EarlyOpen, !.late = cbLoc[p].late,
                                    !.st = GetState, !.fails = Failures]
       ELSE /\ cbPc' = [cbPc EXCEPT ![p] = "idle"]
            /\ \E fallback \in BOOLEAN : cbEv' =
                    [NoEv EXCEPT !.ev = "short", !.early = EarlyOpen, !.late = cbLoc[p].late,
                                    !.fb = fallback,
                                    !.out = HandleOpenCircuit(fallback),
                                    !.st = GetState, !.fails = Failures]
    /\ UNCHANGED <<now, cbRedis, cbLocal, cbStore, cbLoc, cbStreak, cbFresh, cbRecAt,
                   cbOpenedAt, cbFailAt, cbOverlap, cbSlow>>

\* call: await self._set_state(service, HALF_OPEN), then the operation is invoked
CBSetHalfOpen(p) ==
    /\ UNCHANGED <<now, cbRedis>>
    /\ cbPc[p] = "set_half_open"
    /\ CBCanRun(p)
    /\ SetState(HALF_OPEN)
    /\ cbPc' = [cbPc EXCEPT ![p] = "func"]
    /\ cbLoc' = [cbLoc EXCEPT ![p].trial = TRUE]
    /\ UNCHANGED <<cbHist>>

\* the operation returns: _handle_success up to its get_state
CBSuccess(p) ==
    /\ cbPc[p] = "func"
    /\ CBCanRun(p)
    /\ cbStreak' = 0
    /\ cbFresh' = 0
    /\ IF GetState = HALF_OPEN
       THEN /\ cbPc' = [cbPc EXCEPT ![p] = "set_closed"]
            /\ UNCHANGED cbEv
       ELSE /\ cbPc' = [cbPc EXCEPT ![p] = "idle"]
            /\ \E fallback \in BOOLEAN : cbEv' =
                    [NoEv EXCEPT !.ev = "succeeded", !.fb = fallback, !.out = Result, !.trial = cbLoc[p].trial, !.late = cbLoc[p].late,
                                    !.st = GetState, !.fails = Failures]
    /\ UNCHANGED <<now, cbRedis, cbLocal, cbStore, cbLoc, cbRecAt, cbOpenedAt, cbFailAt,
                   cbOverlap, cbSlow>>

\* _handle_success: await self._set_state(service, CLOSED)
CBSetClosed(p) ==
    /\ UNCHANGED <<now, cbRedis>>
    /\ cbPc[p] = "set_closed"
    /\ CBCanRun(p)
    /\ SetState(CLOSED)
    /\ cbPc' = [cbPc EXCEPT ![p] = "idle"]
    /\ \E fallback \in BOOLEAN : cbEv' =
                    [NoEv EXCEPT !.ev = "succeeded", !.fb = fallback, !.out = Result, !.trial = cbLoc[p].trial, !.late = cbLoc[p].late,
                            !.st = CLOSED, !.fails = Failures']
    /\ UNCHANGED <<cbLoc, cbStreak, cbFresh, cbRecAt, cbOpenedAt, cbFailAt, cbOverlap, cbSlow>>

\* the operation raises: _handle_failure up to its get_state
CBFailure(p) ==
    /\ cbPc[p] = "func"
    /\ CBCanRun(p)
    /\ cbStreak' = CapT(cbStreak + 1)
    /\ IF GetState = CLOSED
       THEN /\ cbPc' = [cbPc EXCEPT ![p] = "increment"]
            /\ UNCHANGED <<cbEv, cbFailAt>>
       ELSE IF GetState = HALF_OPEN
       THEN /\ cbPc' = [cbPc EXCEPT ![p] = "set_open"]
            /\ UNCHANGED <<cbEv, cbFailAt>>
       ELSE /\ cbPc' = [cbPc EXCEPT ![p] = "idle"]
            /\ cbFailAt' = now
            /\ \E fallback \in BOOLEAN : cbEv' =
                    [NoEv EXCEPT !.ev = "failed", !.fb = fallback,
                                    !.out = OnException(fallback), !.counted = FALSE,
                                    !.trial = cbLoc[p].trial, !.late = cbLoc[p].late,
                                    !.st = GetState, !.fails = Failures]
    /\ UNCHANGED <<now, cbRedis, cbLocal, cbStore, cbLoc, cbFresh, cbRecAt, cbOpenedAt,
                   cbOverlap, cbSlow>>

\* _increment_failures, local: state = self._local_state.get(service, {'failures': 0})
LocalIncrementFailures ==
    LET state == IF Service \in DOMAIN cbLocal THEN cbLocal[Service]
                 ELSE [k \in {"failures"} |-> 0]
    IN  DictSet(state, "failures", state["failures"] + 1)

\* _increment_failures, shared store: INCR keeps the TTL the key has
StoreIncr ==
    IF CounterLive THEN [cbStore[FailKey] EXCEPT !.val = @ + 1]
    ELSE [val |-> 1, exp |-> -1]

\* where _handle_failure goes once the count is known
AfterCount(p, failures) ==
    IF ReachedThreshold(failures)
    THEN /\ cbPc' = [cbPc EXCEPT ![p] = "set_open"]
         /\ UNCHANGED <<cbEv, cbFailAt>>
    ELSE /\ cbPc' = [cbPc EXCEPT ![p] = "idle"]
         /\ cbFailAt' = now
         /\ \E fallback \in BOOLEAN : cbEv' =
                    [NoEv EXCEPT !.ev = "failed", !.fb = fallback,
                                    !.out = OnException(fallback), !.counted = TRUE,
                                    !.trial = cbLoc[p].trial, !.late = cbLoc[p].late,
                                 !.st = GetState', !.fails = Failures']

\* history: _increment_failures has returned, less than reset_timeout after
\* it last did, or not
Recorded ==
    /\ cbFresh' = IF cbFresh = 0 \/ now - cbRecAt < ResetTimeout
                  THEN CapT(cbFresh + 1) ELSE 1
    /\ cbRecAt' = now

\* _handle_failure: failures = await self._increment_failures(service)
CBIncrement(p) ==
    /\ UNCHANGED <<now, cbRedis>>
    /\ cbPc[p] = "increment"
    /\ CBCanRun(p)
    /\ IF cbRedis
       THEN /\ cbStore' = DictSet(cbStore, FailKey, StoreIncr)
            /\ cbLoc' = [cbLoc EXCEPT ![p].failures = StoreIncr.val, ![p].at = now]
            /\ cbPc' = [cbPc EXCEPT ![p] = "expire"]
            /\ UNCHANGED <<cbLocal, cbEv, cbFailAt, cbFresh, cbRecAt>>
       ELSE /\ cbLocal' = DictSet(cbLocal, Service, LocalIncrementFailures)
            /\ cbLoc' = [cbLoc EXCEPT ![p].failures = LocalIncrementFailures["failures"]]
            /\ AfterCount(p, LocalIncrementFailures["failures"])
            /\ Recorded
            /\ UNCHANGED cbStore
    /\ UNCHANGED <<cbStreak, cbOpenedAt, cbOverlap, cbSlow>>

\* _increment_failures, shared store: await self.redis.expire(key, self.reset_timeout)
CBExpire(p) ==
    /\ UNCHANGED <<now, cbRedis>>
    /\ cbPc[p] = "expire"
    /\ cbStore' = IF CounterLive
                  THEN DictSet(cbStore, FailKey,
                               [cbStore[FailKey] EXCEPT !.exp = now + ResetTimeout])
                  ELSE DictDel(cbStore, {FailKey})
    /\ AfterCount(p, cbLoc[p].failures)
    /\ Recorded
    /\ cbSlow' = (cbSlow \/ now # cbLoc[p].at)
    /\ UNCHANGED <<cbLocal, cbLoc, cbStreak, cbOpenedAt, cbOverlap>>

\* _handle_failure: await self._set_state(service, OPEN)
CBSetOpen(p) ==
    /\ UNCHANGED <<now, cbRedis>>
    /\ cbPc[p] = "set_open"
    /\ CBCanRun(p)
    /\ SetState(OPEN)
    /\ cbOpenedAt' = now
    /\ cbFailAt' = now
    /\ cbPc' = [cbPc EXCEPT ![p] = "idle"]
    /\ \E fallback \in BOOLEAN : cbEv' =
                    [NoEv EXCEPT !.ev = "failed", !.fb = fallback,
                                    !.out = OnException(fallback), !.counted = TRUE,
                                    !.trial = cbLoc[p].trial, !.late = cbLoc[p].late,
                            !.st = OPEN, !.fails = Failures']
    /\ UNCHANGED <<cbLoc, cbStreak, cbFresh, cbRecAt, cbOverlap, cbSlow>>

CBInitWith(backends) ==
    /\ cbRedis \in backends
    /\ cbLocal = EmptyF
    /\ cbStore = EmptyF
    /\ cbPc = [p \in CBProcs |-> "idle"]
    /\ cbLoc = [p \in CBProcs |-> NoLoc]
    /\ cbStreak = 0
    /\ cbFresh = 0
    /\ cbRecAt = 0
    /\ cbOpenedAt = 0
    /\ cbFailAt = 0
    /\ cbOverlap = FALSE
    /\ cbSlow = FALSE
    /\ cbEv = NoEv

CBInit == CBInitWith(BOOLEAN)

\* a breaker nobody calls
CBUnused == CBInitWith({FALSE})

CBTick == Tick(MaxTime) /\ UNCHANGED cbVars

CBNext ==
    \/ \E p \in CBProcs : CBCall(p) /\ UNCHANGED <<rlVars, caVars, mmVars, cpVars, mwVars>>
    \/ \E p \in CBProcs : CBShouldReset(p) /\ UNCHANGED <<rlVars, caVars, mmVars, cpVars, mwVars>>
    \/ \E p \in CBProcs : CBSetHalfOpen(p) /\ UNCHANGED <<rlVars, caVars, mmVars, cpVars, mwVars>>
    \/ \E p \in CBProcs : CBSuccess(p) /\ UNCHANGED <<rlVars, caVars, mmVars, cpVars, mwVars>>
    \/ \E p \in CBProcs : CBSetClosed(p) /\ UNCHANGED <<rlVars, caVars, mmVars, cpVars, mwVars>>
    \/ \E p \in CBProcs : CBFailure(p) /\ UNCHANGED <<rlVars, caVars, mmVars, cpVars, mwVars>>
    \/ \E p \in CBProcs : CBIncrement(p) /\ UNCHANGED <<rlVars, caVars, mmVars, cpVars, mwVars>>
    \/ \E p \in CBProcs : CBExpire(p) /\ UNCHANGED <<rlVars, caVars, mmVars, cpVars, mwVars>>
    \/ \E p \in CBProcs : CBSetOpen(p) /\ UNCHANGED <<rlVars, caVars, mmVars, cpVars, mwVars>>
    \/ CBTick /\ UNCHANGED <<rlVars, caVars, mmVars, cpVars, mwVars>>


(***************************************************************************)
(* CacheManager                                                            *)
(***************************************************************************)
CAKeys == {"k1", "k2"}
CAValues == {"v1", "v2"}
CATags == {"t1"}
\* the tags argument: None / [] or a list of tags
TagLists == {{}, {"t1"}}
\* the ttl argument: None or a number of seconds
NoTtl == -1
TtlArgs == {NoTtl, 0, 1}

\* f"{self.prefix}:{key}" and f"{self.prefix}:tag:{tag}"
CacheKey(key) == <<"cache", key>>
TagKey(tag) == <<"cache", "tag", tag>>

\* _serialize and _deserialize
Serialize(value) == <<"pickle", value>>
Deserialize(bytes) == bytes[2]

\* set: ttl = ttl or self.default_ttl
EffectiveTtl(ttl) == IF ttl = NoTtl \/ ttl = 0 THEN DefaultTtl ELSE ttl

\* the store's keys that have not expired
LiveOf(d, t) == {k \in DOMAIN d : t < d[k].exp}
Unexpired(d, t) == [k \in LiveOf(d, t) |-> d[k]]

\* _is_valid
IsValid(cache_data, t) == t < cache_data.expires_at

\* what get(key) returns from the given state (default is None)
GetFrom(local, str, key, t) ==
    IF caRedis
    THEN IF CacheKey(key) \in LiveOf(str, t)
         THEN Deserialize(str[CacheKey(key)].val) ELSE None
    ELSE IF CacheKey(key) \in DOMAIN local /\ IsValid(local[CacheKey(key)], t)
         THEN local[CacheKey(key)].value ELSE None

\* the keys a get would find
VisibleIn(local, str, t) == {k \in CAKeys : GetFrom(local, str, k, t) # None}

NoCaEv == [op |-> "none", key |-> None, result |-> None, want |-> None,
           tag |-> None, removed |-> {}, wanted |-> {}, stored |-> FALSE,
           invoked |-> FALSE, error |-> FALSE]
NoKeys == [tag |-> None, keys |-> {}]

\* the model keys among a set of full keys
KeysOf(fks) == {k \in CAKeys : CacheKey(k) \in fks}

\* history: the sets whose ttl has not elapsed
Undue(due, t) == [k \in {x \in DOMAIN due : t < due[x].due} |-> due[k]]

\* history: what a delete_by_tag(tag) turning (local, str) into (local2, str2)
\* removed, and the visible entries whose last set carried the tag
TagEvent(tag, local2, str2) ==
    [NoCaEv EXCEPT !.op = "delete_by_tag", !.tag = tag,
        !.removed = VisibleIn(caLocal, caStr, now) \ VisibleIn(local2, str2, now),
        !.wanted = {k \in VisibleIn(caLocal, caStr, now) : tag \in caTagsOf[k]}]

\* set: what it writes
CAStore(key, value, ttl, tags) ==
    /\ LET fk == CacheKey(key)
           exp == now + EffectiveTtl(ttl)
           live == Unexpired(caSets, now)
           added == [tk \in {TagKey(t) : t \in tags} |->
                       [members |-> (IF tk \in DOMAIN live THEN live[tk].members
                                     ELSE {}) \cup {fk},
                        exp |-> exp]]
       IN  IF caRedis
           THEN /\ caStr' = DictSet(Unexpired(caStr, now), fk,
                                    [val |-> Serialize(value), exp |-> exp])
                /\ caSets' = added @@ live
                /\ UNCHANGED caLocal
           ELSE /\ caLocal' = DictSet(caLocal, fk,
                                      [value |-> value, expires_at |-> exp, tags |-> tags])
                /\ UNCHANGED <<caStr, caSets>>
    /\ caDue' = DictSet(Undue(caDue, now), key,
                        [v |-> value,
                         due |-> now + (IF ttl = NoTtl THEN DefaultTtl ELSE ttl)])
    /\ caTagsOf' = DictSet(caTagsOf, key, tags)
    /\ UNCHANGED <<now, caRedis, caPc, caKeys>>

\* set
CASet(key, value, ttl, tags) ==
    /\ caPc = "idle"
    /\ CAStore(key, value, ttl, tags)
    /\ caEv' = NoCaEv

\* get: the local cache once an entry found expired has been dropped
LocalAfterGet(key) ==
    IF /\ ~caRedis
       /\ CacheKey(key) \in DOMAIN caLocal
       /\ ~IsValid(caLocal[CacheKey(key)], now)
    THEN DictDel(caLocal, {CacheKey(key)})
    ELSE caLocal

\* get
CAGet(key) ==
    /\ caPc = "idle"
    /\ caLocal' = LocalAfterGet(key)
    /\ caEv' = [NoCaEv EXCEPT !.op = "get", !.key = key,
                    !.result = GetFrom(caLocal, caStr, key, now),
                    !.want = IF key \in DOMAIN caDue /\ now < caDue[key].due
                             THEN caDue[key].v ELSE None]
    /\ UNCHANGED <<now, caRedis, caStr, caSets, caPc, caKeys, caDue, caTagsOf>>

\* delete
CADelete(key) ==
    /\ caPc = "idle"
    /\ IF caRedis
       THEN /\ caStr' = DictDel(Unexpired(caStr, now), {CacheKey(key)})
            /\ UNCHANGED caLocal
       ELSE /\ caLocal' = DictDel(caLocal, {CacheKey(key)})
            /\ UNCHANGED caStr
    /\ caDue' = DictDel(caDue, {key})
    /\ caEv' = NoCaEv
    /\ UNCHANGED <<now, caRedis, caSets, caPc, caKeys, caTagsOf>>

\* delete_by_tag: the local branch, or the shared store's smembers
CADeleteByTag(tag) ==
    /\ caPc = "idle"
    /\ IF caRedis
       THEN LET keys == IF TagKey(tag) \in LiveOf(caSets, now)
                        THEN caSets[TagKey(tag)].members ELSE {}
            IN  /\ IF keys = {}
                   THEN /\ caEv' = TagEvent(tag, caLocal, caStr)
                        /\ UNCHANGED <<caPc, caKeys>>
                   ELSE /\ caPc' = "delete_by_tag"
                        /\ caKeys' = [tag |-> tag, keys |-> keys]
                        /\ caEv' = NoCaEv
                /\ UNCHANGED <<caLocal, caDue>>
       ELSE LET keys_to_delete == {k \in DOMAIN caLocal : tag \in caLocal[k].tags}
            IN  /\ caLocal' = DictDel(caLocal, keys_to_delete)
                /\ caEv' = TagEvent(tag, DictDel(caLocal, keys_to_delete), caStr)
                /\ caDue' = DictDel(caDue, KeysOf(keys_to_delete))
                /\ UNCHANGED <<caPc, caKeys>>
    /\ UNCHANGED <<now, caRedis, caStr, caSets, caTagsOf>>

\* delete_by_tag, shared store: the pipeline deleting the keys and the tag set
CADeleteByTagExec ==
    /\ caPc = "delete_by_tag"
    /\ caStr' = DictDel(Unexpired(caStr, now), caKeys.keys)
    /\ caSets' = DictDel(Unexpired(caSets, now), {TagKey(caKeys.tag)})
    /\ caEv' = TagEvent(caKeys.tag, caLocal, DictDel(caStr, caKeys.keys))
    /\ caDue' = DictDel(caDue, KeysOf(caKeys.keys))
    /\ caPc' = "idle"
    /\ caKeys' = NoKeys
    /\ UNCHANGED <<now, caRedis, caLocal, caTagsOf>>

\* clear: the local branch, or the shared store's keys(pattern)
CAClear ==
    /\ caPc = "idle"
    /\ IF caRedis
       THEN LET keys == LiveOf(caStr, now) \cup LiveOf(caSets, now)
            IN  /\ IF keys = {}
                   THEN UNCHANGED <<caPc, caKeys>>
                   ELSE /\ caPc' = "clear"
                        /\ caKeys' = [tag |-> None, keys |-> keys]
                /\ UNCHANGED <<caLocal, caDue>>
       ELSE /\ caLocal' = EmptyF
            /\ caDue' = EmptyF
            /\ UNCHANGED <<caPc, caKeys>>
    /\ caEv' = NoCaEv
    /\ UNCHANGED <<now, caRedis, caStr, caSets, caTagsOf>>

\* clear, shared store: delete(*keys)
CAClearExec ==
    /\ caPc = "clear"
    /\ caStr' = DictDel(Unexpired(caStr, now), caKeys.keys)
    /\ caSets' = DictDel(Unexpired(caSets, now), caKeys.keys)
    /\ caDue' = DictDel(caDue, KeysOf(caKeys.keys))
    /\ caPc' = "idle"
    /\ caKeys' = NoKeys
    /\ caEv' = NoCaEv
    /\ UNCHANGED <<now, caRedis, caLocal, caTagsOf>>

\* the wrapped function's name, the positional arguments it is called with
\* and the results it can return: None, a falsy value, an ordinary value
FuncName == "f"
CallArgs == {"x", "y"}
ZERO == "0"
CachedResults == {None, ZERO, "v1"}

\* _hash_args of a tuple of positional arguments: a digest of str(args)
HashArgs(args) == "#" \o args

\* _generate_cache_key without a key_prefix and without keyword arguments
GenerateCacheKey(func_name, args) == func_name \o ":" \o HashArgs(args)

\* the wrapper of cached(ttl, tags): get; on a value that is not None return
\* it, else call the function (it returns result), set, return the result
CACached(args, result, ttl, tags) ==
    LET key == GenerateCacheKey(FuncName, args)
        cached_value == GetFrom(caLocal, caStr, key, now)
        held == key \in DOMAIN caDue /\ now < caDue[key].due
    IN  /\ caPc = "idle"
        /\ IF cached_value # None
           THEN /\ caLocal' = LocalAfterGet(key)
                /\ UNCHANGED <<now, caRedis, caStr, caSets, caPc, caKeys, caDue, caTagsOf>>
           ELSE CAStore(key, result, ttl, tags)
        /\ caEv' = [NoCaEv EXCEPT !.op = "cached", !.key = key,
                        !.stored = held,
                        !.want = IF held THEN caDue[key].v ELSE None,
                        !.invoked = (cached_value = None),
                        !.result = IF cached_value # None THEN cached_value ELSE result]

\* the wrapper called with keyword arguments: _hash_args evaluates
\* str(kwargs).items() and the AttributeError leaves the wrapper
CACachedKwargs(args) ==
    /\ caPc = "idle"
    /\ caEv' = [NoCaEv EXCEPT !.op = "cached", !.error = TRUE]
    /\ UNCHANGED <<now, caRedis, caLocal, caStr, caSets, caPc, caKeys, caDue, caTagsOf>>

CAInitWith(backends) ==
    /\ caRedis \in backends
    /\ caLocal = EmptyF
    /\ caStr = EmptyF
    /\ caSets = EmptyF
    /\ caPc = "idle"
    /\ caKeys = NoKeys
    /\ caDue = EmptyF
    /\ caTagsOf = [k \in CAKeys |-> {}]
    /\ caEv = NoCaEv

CAInit == CAInitWith(BOOLEAN)

\* a cache nobody uses
CAUnused == CAInitWith({FALSE})

CATick == Tick(DefaultTtl) /\ UNCHANGED caVars

CANext ==
    \/ \E key \in CAKeys, value \in CAValues, ttl \in TtlArgs, tags \in TagLists :
            CASet(key, value, ttl, tags) /\ UNCHANGED <<rlVars, cbVars, mmVars, cpVars, mwVars>>
    \/ \E key \in CAKeys : CAGet(key) /\ UNCHANGED <<rlVars, cbVars, mmVars, cpVars, mwVars>>
    \/ \E key \in CAKeys : CADelete(key) /\ UNCHANGED <<rlVars, cbVars, mmVars, cpVars, mwVars>>
    \/ \E tag \in CATags : CADeleteByTag(tag) /\ UNCHANGED <<rlVars, cbVars, mmVars, cpVars, mwVars>>
    \/ CADeleteByTagExec /\ UNCHANGED <<rlVars, cbVars, mmVars, cpVars, mwVars>>
    \/ CAClear /\ UNCHANGED <<rlVars, cbVars, mmVars, cpVars, mwVars>>
    \/ CAClearExec /\ UNCHANGED <<rlVars, cbVars, mmVars, cpVars, mwVars>>
    \/ CATick /\ UNCHANGED <<rlVars, cbVars, mmVars, cpVars, mwVars>>

\* the keys of the wrapped function's calls
CachedKeys == {GenerateCacheKey(FuncName, args) : args \in CallArgs}

\* a function wrapped with cached(ttl) and no tags, called again and again,
\* its entries deleted now and then
CachedNext ==
    \/ \E args \in CallArgs, result \in CachedResults, ttl \in TtlArgs :
            CACached(args, result, ttl, {}) /\ UNCHANGED <<rlVars, cbVars, mmVars, cpVars, mwVars>>
    \/ \E args \in CallArgs : CACachedKwargs(args) /\ UNCHANGED <<rlVars, cbVars, mmVars, cpVars, mwVars>>
    \/ \E key \in CachedKeys : CADelete(key) /\ UNCHANGED <<rlVars, cbVars, mmVars, cpVars, mwVars>>
    \/ CATick /\ UNCHANGED <<rlVars, cbVars, mmVars, cpVars, mwVars>>


(***************************************************************************)
(* ModelManager and DeepseekModel                                          *)
(***************************************************************************)
MMProcs == {"p", "q"}
ModelIds == {"A", "B", "C"}
\* the DeepseekModel objects that can be alive at a time
Handles == {"h1", "h2", "h3", "h4"}
\* _max_cache_size, with MODEL_CACHE_SIZE unset
MaxCacheSize == 2

\* the state of self.model: None, a loaded model, or the attribute deleted
LOADED == "loaded"
DELETED == "deleted"
FREE == "free"

\* DeepseekModel.__init__
NewHandle(model_id, t) ==
    [model_id |-> model_id, model |-> None, tokenizer |-> None, last_used |-> t,
     lock |-> FREE]

\* cls._instances as a dict: its keys, cls._instances[id], del, assignment
PoolIds(insts) == {insts[i].id : i \in DOMAIN insts}
HandleOf(insts, id) == insts[CHOOSE i \in DOMAIN insts : insts[i].id = id].h
RECURSIVE PoolDel(_, _)
PoolDel(insts, id) ==
    IF insts = <<>> THEN <<>>
    ELSE (IF Head(insts).id = id THEN <<>> ELSE <<Head(insts)>>)
            \o PoolDel(Tail(insts), id)
PoolPut(insts, id, h) ==
    IF id \in PoolIds(insts)
    THEN [i \in DOMAIN insts |-> IF insts[i].id = id THEN [id |-> id, h |-> h]
                                 ELSE insts[i]]
    ELSE Append(insts, [id |-> id, h |-> h])

\* _maybe_evict_model: min(keys, key=last_used) returns the first minimal key
\* in the dict's order
OldestModelId(insts, heap) ==
    LET lu(i) == heap[insts[i].h].last_used
        first == CHOOSE i \in DOMAIN insts :
                    /\ \A j \in DOMAIN insts : lu(i) <= lu(j)
                    /\ \A j \in DOMAIN insts : lu(j) = lu(i) => i <= j
    IN  insts[first].id

\* _maybe_evict_model's test, and the test with > for >=
PoolFull_Strict(n) == n > MaxCacheSize
PoolFull(n) == n >= MaxCacheSize

\* unload: del self.model; self.model = None, and unload without the assignment
Released_Deleted(handle) == [handle EXCEPT !.model = DELETED]
Released(handle) == [handle EXCEPT !.model = None]

\* the objects still referenced: by the pool, or by a caller
Referenced(insts, loc) ==
    {insts[i].h : i \in DOMAIN insts}
        \cup {loc[p].held : p \in MMProcs} \cup {loc[p].vh : p \in MMProcs}
Collected(heap, insts, loc) ==
    [h \in DOMAIN heap \cap Referenced(insts, loc) |-> heap[h]]

\* the object a constructor call allocates
Fresh(heap) == CHOOSE h \in Handles : h \notin DOMAIN heap

NoMmLoc == [held |-> None, id |-> None, peers |-> {}, vh |-> None, victim |-> None]
NoMmEv == [op |-> "none", error |-> FALSE, was |-> None, is |-> None,
           waited |-> FALSE, kept |-> TRUE, h |-> None]
\* history: the last load / unload that ended, where a history is kept
NoHist == [NoMmEv EXCEPT !.op = "off"]
Hist(ev) == IF mmEv = NoHist THEN NoHist ELSE ev

\* history: the ids of a sequence that are in a set, in the sequence's order
RECURSIVE Keep(_, _)
Keep(seq, S) ==
    IF seq = <<>> THEN <<>>
    ELSE (IF Head(seq) \in S THEN <<Head(seq)>> ELSE <<>>) \o Keep(Tail(seq), S)

\* a caller is inside get_model, suspended in the victim's unload
EvictPcs == {"evict_lock", "evict_unload"}

\* one caller's locals replaced
SetLoc(loc, p, rec) == [q \in MMProcs |-> IF q = p THEN rec ELSE loc[q]]

\* model.last_used = datetime.utcnow()
Touch(heap, h, t) ==
    [x \in DOMAIN heap |-> IF x = h THEN [heap[x] EXCEPT !.last_used = t] ELSE heap[x]]

\* the end of a step of get_model: the new pool, objects and locals
Finish(p, pc, insts, heap, loc) ==
    /\ mmPc' = [mmPc EXCEPT ![p] = pc]
    /\ mmInstances' = insts
    /\ mmLoc' = loc
    /\ mmHeap' = Collected(heap, insts, loc)
    /\ mmRecency' = Keep(mmRecency, PoolIds(insts))
    /\ mmEv' = Hist(NoMmEv)

\* get_model raises (KeyError from del, AttributeError from unload)
Raise(p, insts, heap, loc) ==
    Finish(p, "idle", insts, heap,
           SetLoc(loc, p, [NoMmLoc EXCEPT !.peers = loc[p].peers]))

\* get_model: model = cls._instances[model_id]; model.last_used = utcnow(); return
Return(p, insts, heap, loc) ==
    LET id == loc[p].id
        h == HandleOf(insts, id)
        loc2 == SetLoc(loc, p, [NoMmLoc EXCEPT !.held = h, !.peers = loc[p].peers])
    IN  /\ mmPc' = [mmPc EXCEPT ![p] = "idle"]
        /\ mmInstances' = insts
        /\ mmLoc' = loc2
        /\ mmHeap' = Collected(Touch(heap, h, now), insts, loc2)
        /\ mmRecency' = Append(Keep(mmRecency, PoolIds(insts) \ {id}), id)
        /\ mmEv' = Hist(NoMmEv)

\* get_model: cls._instances[model_id] = DeepseekModel(model_id, model_path);
\* _maybe_evict_model has returned, its reference to the victim is gone
InsertReturn(p, insts, heap, loc) ==
    LET id == loc[p].id
        loc1 == SetLoc(loc, p, [NoMmLoc EXCEPT !.id = id, !.peers = loc[p].peers])
        heap1 == Collected(heap, insts, loc1)
        h == Fresh(heap1)
    IN  Return(p, PoolPut(insts, id, h),
               [x \in DOMAIN heap1 \cup {h} |->
                   IF x = h THEN NewHandle(id, now) ELSE heap1[x]],
               loc1)

\* _maybe_evict_model: del cls._instances[oldest_model_id], then the insertion
DelInsertReturn(p, insts, heap, loc) ==
    IF loc[p].victim \notin PoolIds(insts)
    THEN Raise(p, insts, heap, loc)
    ELSE InsertReturn(p, PoolDel(insts, loc[p].victim), heap, loc)

\* a handle with its lock taken or released
Locked(heap, h, owner) ==
    [x \in DOMAIN heap |-> IF x = h THEN [heap[x] EXCEPT !.lock = owner] ELSE heap[x]]
ReleasedIn(heap, h) ==
    [x \in DOMAIN heap |-> IF x = h THEN Released(heap[x]) ELSE heap[x]]

\* unload of the victim from its first test on
EvictUnload(p, heap, loc) ==
    LET vh == loc[p].vh
    IN  CASE heap[vh].model = DELETED -> Raise(p, mmInstances, heap, loc)
          [] heap[vh].model = None -> DelInsertReturn(p, mmInstances, heap, loc)
          [] OTHER ->
                IF heap[vh].lock # FREE
                THEN Finish(p, "evict_lock", mmInstances, heap, loc)
                ELSE IF mmYield
                THEN Finish(p, "evict_unload", mmInstances, Locked(heap, vh, p), loc)
                ELSE DelInsertReturn(p, mmInstances, ReleasedIn(heap, vh), loc)

\* get_model up to its return or to the suspension in the victim's unload
MMGetModel(p, id) ==
    /\ mmPc[p] = "idle"
    /\ LET inflight == {q \in MMProcs \ {p} :
                            mmPc[q] \in EvictPcs /\ mmLoc[q].id = id}
           entered(victim, vh) ==
                [q \in MMProcs |->
                    IF q = p
                    THEN [NoMmLoc EXCEPT !.id = id, !.peers = inflight,
                                         !.victim = victim, !.vh = vh]
                    ELSE [mmLoc[q] EXCEPT !.peers = IF q \in inflight
                                                   THEN @ \cup {p} ELSE @ \ {p}]]
       IN  IF id \in PoolIds(mmInstances)
           THEN Return(p, mmInstances, mmHeap, entered(None, None))
           ELSE IF ~PoolFull(Len(mmInstances))
           THEN InsertReturn(p, mmInstances, mmHeap, entered(None, None))
           ELSE LET victim == OldestModelId(mmInstances, mmHeap)
                IN  EvictUnload(p, mmHeap,
                                entered(victim, HandleOf(mmInstances, victim)))
    /\ UNCHANGED <<now, mmYield>>

\* the victim's unload: the lock is acquired
MMEvictLock(p) ==
    /\ mmPc[p] = "evict_lock"
    /\ mmHeap[mmLoc[p].vh].lock = FREE
    /\ EvictUnload(p, mmHeap, mmLoc)
    /\ UNCHANGED <<now, mmYield>>

\* the victim's unload completes; del, insertion and return follow
MMEvictUnloaded(p) ==
    /\ mmPc[p] = "evict_unload"
    /\ DelInsertReturn(p, mmInstances,
                       Locked(ReleasedIn(mmHeap, mmLoc[p].vh), mmLoc[p].vh, FREE),
                       mmLoc)
    /\ UNCHANGED <<now, mmYield>>

\* a step of load / unload on the caller's handle
HandleStep(p, pc, handle, ev) ==
    /\ mmPc' = [mmPc EXCEPT ![p] = pc]
    /\ mmHeap' = [x \in DOMAIN mmHeap |-> IF x = mmLoc[p].held THEN handle
                                          ELSE mmHeap[x]]
    /\ mmEv' = Hist(ev)
    /\ UNCHANGED <<now, mmYield, mmInstances, mmLoc, mmRecency>>

\* load / unload returns or raises; history: what it found and what it left
HandleDone(p, op, handle, error, waited) ==
    LET before == mmHeap[mmLoc[p].held]
        after == [handle EXCEPT !.lock = IF @ = p THEN FREE ELSE @]
    IN  HandleStep(p, "idle", after,
            [NoMmEv EXCEPT !.op = op, !.error = error, !.waited = waited,
                           !.h = mmLoc[p].held,
                           !.was = before.model, !.is = after.model,
                           !.kept = ([after EXCEPT !.lock = FREE]
                                        = [before EXCEPT !.lock = FREE])])

\* how load's try block ends: both from_pretrained calls return, or the
\* tokenizer's raises, or the model's raises
LoadOutcomes == {"ok", "tokenizer", "model"}

\* self.tokenizer is written by load only and read by generate only: it is
\* tracked where the handles' history is kept, and left out elsewhere
Tokenizer(v) == IF mmEv = NoHist THEN None ELSE v

\* load's try block: self.tokenizer = ...from_pretrained(...), then self.model
FromPretrained(handle, outcome) ==
    CASE outcome = "ok" -> [handle EXCEPT !.tokenizer = Tokenizer(LOADED), !.model = LOADED]
      [] outcome = "model" -> [handle EXCEPT !.tokenizer = Tokenizer(LOADED)]
      [] OTHER -> handle

\* load from its test under the lock on; from_pretrained succeeds or raises
LoadLocked(p, outcome, waited) ==
    LET handle == mmHeap[mmLoc[p].held]
    IN  CASE handle.model = DELETED -> HandleDone(p, "load", handle, TRUE, waited)
          [] handle.model = LOADED -> HandleDone(p, "load", handle, FALSE, waited)
          [] OTHER ->
                IF mmYield
                THEN HandleStep(p, "loading", [handle EXCEPT !.lock = p], NoMmEv)
                ELSE HandleDone(p, "load", FromPretrained(handle, outcome),
                                outcome # "ok", waited)

\* load on the handle get_model returned
MMLoad(p) ==
    /\ mmPc[p] = "idle"
    /\ mmLoc[p].held # None
    /\ LET handle == mmHeap[mmLoc[p].held]
       IN  IF handle.model = None /\ handle.lock # FREE
           THEN HandleStep(p, "load_lock", handle, NoMmEv)
           ELSE \E outcome \in LoadOutcomes : LoadLocked(p, outcome, FALSE)

\* load: the lock is acquired
MMLoadLock(p) ==
    /\ mmPc[p] = "load_lock"
    /\ mmHeap[mmLoc[p].held].lock = FREE
    /\ \E outcome \in LoadOutcomes : LoadLocked(p, outcome, TRUE)

\* load: from_pretrained returns or raises, the lock is released
MMLoaded(p, outcome) ==
    /\ mmPc[p] = "loading"
    /\ HandleDone(p, "load", FromPretrained(mmHeap[mmLoc[p].held], outcome),
                  outcome # "ok", FALSE)

\* unload from its test under the lock on
UnloadLocked(p, waited) ==
    LET handle == mmHeap[mmLoc[p].held]
    IN  CASE handle.model = DELETED -> HandleDone(p, "unload", handle, TRUE, waited)
          [] handle.model = None -> HandleDone(p, "unload", handle, FALSE, waited)
          [] OTHER ->
                IF mmYield
                THEN HandleStep(p, "unloading", [handle EXCEPT !.lock = p], NoMmEv)
                ELSE HandleDone(p, "unload", Released(handle), FALSE, waited)

\* unload on the handle get_model returned
MMUnload(p) ==
    /\ mmPc[p] = "idle"
    /\ mmLoc[p].held # None
    /\ LET handle == mmHeap[mmLoc[p].held]
       IN  IF handle.model = LOADED /\ handle.lock # FREE
           THEN HandleStep(p, "unload_lock", handle, NoMmEv)
           ELSE UnloadLocked(p, FALSE)

\* unload: the lock is acquired
MMUnloadLock(p) ==
    /\ mmPc[p] = "unload_lock"
    /\ mmHeap[mmLoc[p].held].lock = FREE
    /\ UnloadLocked(p, TRUE)

\* unload: the model is released, the lock is released
MMUnloaded(p) ==
    /\ mmPc[p] = "unloading"
    /\ HandleDone(p, "unload", Released(mmHeap[mmLoc[p].held]), FALSE, FALSE)

MMInitWith(yields, ev) ==
    /\ mmYield \in yields
    /\ mmInstances = <<>>
    /\ mmHeap = EmptyF
    /\ mmPc = [p \in MMProcs |-> "idle"]
    /\ mmLoc = [p \in MMProcs |-> NoMmLoc]
    /\ mmRecency = <<>>
    /\ mmEv = ev

\* the manager as the services use it: get_model, then load
MMInit == MMInitWith(BOOLEAN, NoHist)

\* the handles used directly, with a history of load and unload
HandleInit == MMInitWith(BOOLEAN, NoMmEv)

\* a manager nobody uses
MMUnused == MMInitWith({FALSE}, NoHist)

MMTick == Tick(MaxStamp) /\ UNCHANGED mmVars

MMNext ==
    \/ \E p \in MMProcs, id \in ModelIds :
            MMGetModel(p, id) /\ UNCHANGED <<rlVars, cbVars, caVars, cpVars, mwVars>>
    \/ \E p \in MMProcs : MMEvictLock(p) /\ UNCHANGED <<rlVars, cbVars, caVars, cpVars, mwVars>>
    \/ \E p \in MMProcs : MMEvictUnloaded(p) /\ UNCHANGED <<rlVars, cbVars, caVars, cpVars, mwVars>>
    \/ \E p \in MMProcs : MMLoad(p) /\ UNCHANGED <<rlVars, cbVars, caVars, cpVars, mwVars>>
    \/ \E p \in MMProcs : MMLoadLock(p) /\ UNCHANGED <<rlVars, cbVars, caVars, cpVars, mwVars>>
    \/ \E p \in MMProcs, outcome \in LoadOutcomes :
            MMLoaded(p, outcome) /\ UNCHANGED <<rlVars, cbVars, caVars, cpVars, mwVars>>
    \/ MMTick /\ UNCHANGED <<rlVars, cbVars, caVars, cpVars, mwVars>>

\* get_model while the pool has room, or for a model it holds
MMGetModelNoEvict(p, id) ==
    /\ id \in PoolIds(mmInstances) \/ ~PoolFull(Len(mmInstances))
    /\ MMGetModel(p, id)

HandleNext ==
    \/ \E p \in MMProcs, id \in ModelIds :
            MMGetModelNoEvict(p, id) /\ UNCHANGED <<rlVars, cbVars, caVars, cpVars, mwVars>>
    \/ \E p \in MMProcs : MMLoad(p) /\ UNCHANGED <<rlVars, cbVars, caVars, cpVars, mwVars>>
    \/ \E p \in MMProcs : MMLoadLock(p) /\ UNCHANGED <<rlVars, cbVars, caVars, cpVars, mwVars>>
    \/ \E p \in MMProcs, outcome \in LoadOutcomes :
            MMLoaded(p, outcome) /\ UNCHANGED <<rlVars, cbVars, caVars, cpVars, mwVars>>
    \/ \E p \in MMProcs : MMUnload(p) /\ UNCHANGED <<rlVars, cbVars, caVars, cpVars, mwVars>>
    \/ \E p \in MMProcs : MMUnloadLock(p) /\ UNCHANGED <<rlVars, cbVars, caVars, cpVars, mwVars>>
    \/ \E p \in MMProcs : MMUnloaded(p) /\ UNCHANGED <<rlVars, cbVars, caVars, cpVars, mwVars>>
    \/ MMTick /\ UNCHANGED <<rlVars, cbVars, caVars, cpVars, mwVars>>

(***************************************************************************)
(* CachePolicy                                                             *)
(***************************************************************************)
PolicyKeys == {"k1", "k2"}
NONE == "none"
SIMPLE == "simple"
LRU == "lru"
ADAPTIVE == "adaptive"
CacheStrategy == {NONE, SIMPLE, LRU, ADAPTIVE}

\* what the constructor is given: a small max_size, ttl_seconds and
\* update_interval, with each strategy
PolicyConfigs ==
    {[strategy |-> s, max_size |-> 2, ttl_seconds |-> 1, update_interval |-> 2] :
        s \in CacheStrategy}

\* _access_times as a dict, in insertion order: <<[key, t], ...>>
AccKeys(acc) == {acc[i].key : i \in DOMAIN acc}
AccTime(acc, key) == acc[CHOOSE i \in DOMAIN acc : acc[i].key = key].t
AccPut(acc, key, t) ==
    IF key \in AccKeys(acc)
    THEN [i \in DOMAIN acc |-> IF acc[i].key = key THEN [key |-> key, t |-> t]
                               ELSE acc[i]]
    ELSE Append(acc, [key |-> key, t |-> t])
RECURSIVE AccDel(_, _)
AccDel(acc, key) ==
    IF acc = <<>> THEN <<>>
    ELSE (IF Head(acc).key = key THEN <<>> ELSE <<Head(acc)>>) \o AccDel(Tail(acc), key)

\* min(self._access_times.items(), key=lambda x: x[1])[0]: the first of the
\* keys with the least access time, in the dict's order
OldestKey(acc) ==
    acc[CHOOSE i \in DOMAIN acc :
            /\ \A j \in DOMAIN acc : acc[i].t <= acc[j].t
            /\ \A j \in DOMAIN acc : acc[j].t = acc[i].t => i <= j].key

\* should_evict with >= for the age test
ShouldEvict_AtTtl(p, acc, key, t) ==
    IF key \notin AccKeys(acc) THEN FALSE
    ELSE IF t - AccTime(acc, key) >= p.ttl_seconds THEN TRUE
    ELSE IF p.strategy = LRU /\ Len(acc) >= p.max_size THEN key = OldestKey(acc)
    ELSE FALSE

\* should_evict
ShouldEvict(p, acc, key, t) ==
    IF key \notin AccKeys(acc) THEN FALSE
    ELSE IF t - AccTime(acc, key) > p.ttl_seconds THEN TRUE
    ELSE IF p.strategy = LRU /\ Len(acc) >= p.max_size THEN key = OldestKey(acc)
    ELSE FALSE

\* _update_statistics: the keys of list(self._access_times.keys()) one after
\* the other, each tested against the dict as the deletions so far left it
RECURSIVE Sweep(_, _, _, _)
Sweep(p, keys, acc, t) ==
    IF keys = <<>> THEN acc
    ELSE Sweep(p, Tail(keys),
               IF ShouldEvict(p, acc, Head(keys), t) THEN AccDel(acc, Head(keys)) ELSE acc,
               t)

KeyList(acc) == [i \in DOMAIN acc |-> acc[i].key]

\* should_cache's `(current_time - self._last_update) >= self.update_interval`
UpdateDue(p, t) == t - p.last_update >= p.update_interval

\* _hit_counts holds floats once decayed: a count c is kept as c * 8000, so
\* that three decays by 0.95 stay exact
Hit(n) == n * 8000
Decayed(c) == (c * 19) \div 20

\* the policy object after should_cache's call of _update_statistics, if due:
\* the sweep, with the hit count of each deleted key popped, then the decay
AfterUpdate(p, t) ==
    IF p.strategy \in {NONE, SIMPLE} \/ ~UpdateDue(p, t) THEN p
    ELSE LET acc == Sweep(p, KeyList(p.access_times), p.access_times, t)
         IN  [p EXCEPT !.last_update = t,
                       !.access_times = acc,
                       !.hit_counts = [k \in PolicyKeys |->
                                          IF k \in AccKeys(acc) \/ k \notin AccKeys(p.access_times)
                                          THEN Decayed(p.hit_counts[k]) ELSE 0]]

\* should_cache's answer on the policy object as _update_statistics left it;
\* hit_rate > 0.1 in integers
ShouldCacheAnswer(p, key) ==
    CASE p.strategy = NONE -> FALSE
      [] p.strategy = SIMPLE -> TRUE
      [] p.strategy = LRU -> Len(p.access_times) < p.max_size
      [] OTHER -> 10 * p.hit_counts[key] > Hit(Max0(Len(p.access_times) - 1) + 1)

NoCpEv == [op |-> "none", key |-> None, result |-> FALSE, at |-> 0, seen |-> <<>>]

\* should_cache(key, value)
CPShouldCache(key) ==
    LET p == AfterUpdate(cp, now)
    IN  /\ cp' = p
        /\ cpEv' = [op |-> "should_cache", key |-> key, result |-> ShouldCacheAnswer(p, key),
                    at |-> now, seen |-> p.access_times]
        /\ UNCHANGED now

\* update_access(key)
CPUpdateAccess(key) ==
    /\ cp.hit_counts[key] + Hit(1) <= Hit(MaxHits)
    /\ cp' = [cp EXCEPT !.access_times = AccPut(@, key, now),
                        !.hit_counts = [@ EXCEPT ![key] = @ + Hit(1)]]
    /\ cpEv' = NoCpEv
    /\ UNCHANGED now

\* should_evict(key)
CPShouldEvict(key) ==
    /\ cpEv' = [op |-> "should_evict", key |-> key,
                result |-> ShouldEvict(cp, cp.access_times, key, now),
                at |-> now, seen |-> cp.access_times]
    /\ UNCHANGED <<now, cp>>

CPInitWith(configs) ==
    /\ cp \in {[strategy |-> c.strategy, max_size |-> c.max_size,
                 ttl_seconds |-> c.ttl_seconds, update_interval |-> c.update_interval,
                 last_update |-> 0, hit_counts |-> [k \in PolicyKeys |-> 0],
                 access_times |-> <<>>] : c \in configs}
    /\ cpEv = NoCpEv

CPInit == CPInitWith(PolicyConfigs)

\* a policy nobody asks
CPUnused == CPInitWith({c \in PolicyConfigs : c.strategy = ADAPTIVE})

CPTick == Tick(MaxTime) /\ UNCHANGED cpVars

CPNext ==
    \/ \E key \in PolicyKeys : CPShouldCache(key) /\ UNCHANGED <<rlVars, cbVars, caVars, mmVars, mwVars>>
    \/ \E key \in PolicyKeys : CPUpdateAccess(key) /\ UNCHANGED <<rlVars, cbVars, caVars, mmVars, mwVars>>
    \/ \E key \in PolicyKeys : CPShouldEvict(key) /\ UNCHANGED <<rlVars, cbVars, caVars, mmVars, mwVars>>
    \/ CPTick /\ UNCHANGED <<rlVars, cbVars, caVars, mmVars, mwVars>>

\* a cache manager in a program that also holds a policy object, whatever its
\* strategy: set, get and delete, none of which refers to the policy
CAWithPolicyNext ==
    \/ \E key \in CAKeys, value \in CAValues, ttl \in TtlArgs :
            CASet(key, value, ttl, {}) /\ UNCHANGED <<rlVars, cbVars, mmVars, cpVars, mwVars>>
    \/ \E key \in CAKeys : CAGet(key) /\ UNCHANGED <<rlVars, cbVars, mmVars, cpVars, mwVars>>
    \/ \E key \in CAKeys : CADelete(key) /\ UNCHANGED <<rlVars, cbVars, mmVars, cpVars, mwVars>>
    \/ CATick /\ UNCHANGED <<rlVars, cbVars, mmVars, cpVars, mwVars>>

(***************************************************************************)
(* RateLimitMiddleware.dispatch                                            *)
(***************************************************************************)
MWUsers == {"u1", "u2"}

\* the Authorization header of a request: absent, or "Bearer <token>"
NoHeader == ""
Bearer(token) == "Bearer " \o token
MWHeaders == {NoHeader} \cup {Bearer(u) : u \in MWUsers}

\* header.split(" "): the words of the header
SplitHeader(header) ==
    IF header = NoHeader THEN <<"">>
    ELSE <<"Bearer", CHOOSE u \in MWUsers : header = Bearer(u)>>

\* get_user_info: the user the token belongs to, and that user's rate_limit
UserInfo(token) == [id |-> token, rate_limit |-> mwArgs.rate_limit]

\* f"rate_limit:{user_info['id']}:{int(time.time() // settings.RATE_LIMIT_WINDOW)}"
MWKey(id, t) == "rate_limit:" \o id \o ":" \o ToString(t \div mwArgs.window)

\* the counter under key is in the store: set, and its TTL has not run out
MWLive(key) == key \in DOMAIN mwStore /\ now < mwStore[key].exp

\* pipe.incr(key); pipe.expire(key, RATE_LIMIT_WINDOW)
MWIncr(key) ==
    [val |-> (IF MWLive(key) THEN mwStore[key].val ELSE 0) + 1,
     exp |-> now + mwArgs.window]

\* HTTPException(status_code, detail), and the response call_next returned
HTTPException(status_code, detail) ==
    [kind |-> "raise", status |-> status_code, detail |-> detail]
OtherException(name) == [kind |-> "raise", status |-> 0, detail |-> name]
Response(headers) == [kind |-> "return", status |-> 200, detail |-> headers]

\* the 429 raised when current > rate_limit
RateLimitExceeded(rate_limit, ttl) ==
    HTTPException(429, [error |-> "Rate limit exceeded", limit |-> rate_limit,
                        window_seconds |-> mwArgs.window, reset_after |-> ttl])

\* except Exception: whatever the try block raised (HTTPException is an
\* Exception) becomes a 500
Handled(outcome) ==
    IF outcome.kind = "raise"
    THEN HTTPException(500, "Internal server error during rate limiting")
    ELSE outcome

NoMwEv == [op |-> "none", current |-> 0, limit |-> 0, counted |-> FALSE,
           passed |-> FALSE, error |-> None, out |-> Response(<<>>)]

\* dispatch: header is the request's Authorization header, fault says that the
\* store raises at pipe.execute(), downstream how call_next ends
MWDispatch(header, fault, downstream) ==
    LET words == SplitHeader(header)
        parsed == Len(words) >= 2
        user_info == UserInfo(words[2])
        rate_limit == user_info.rate_limit
        key == MWKey(user_info.id, now)
        counter == MWIncr(key)
        current == counter.val
        counted == parsed /\ ~fault
        exceeded == counted /\ current > rate_limit
        passed == counted /\ ~exceeded
        tried == IF ~parsed THEN OtherException("IndexError")
                 ELSE IF fault THEN OtherException("RedisError")
                 ELSE IF exceeded
                 THEN RateLimitExceeded(rate_limit, counter.exp - now)
                 ELSE IF downstream = "raises" THEN OtherException("Downstream")
                 ELSE Response(<<rate_limit, rate_limit - current, counter.exp - now>>)
    IN  /\ counted => current <= rate_limit + ExtraCalls
        /\ mwStore' = IF counted THEN DictSet(mwStore, key, counter) ELSE mwStore
        /\ mwEv' = [op |-> "dispatch",
                    current |-> IF counted THEN current ELSE 0,
                    limit |-> IF parsed THEN rate_limit ELSE 0,
                    counted |-> counted, passed |-> passed,
                    error |-> IF tried.kind = "raise" THEN tried.detail ELSE None,
                    out |-> Handled(tried)]
        /\ UNCHANGED <<now, mwArgs>>

MWConfigs == { [rate_limit |-> 2, window |-> 2] }

MWInit ==
    /\ mwArgs \in MWConfigs
    /\ mwStore = EmptyF
    /\ mwEv = NoMwEv

\* a middleware no request goes through
MWUnused == MWInit

MWTick == Tick(MaxTime) /\ UNCHANGED mwVars

MWNext ==
    \/ \E header \in MWHeaders, fault \in BOOLEAN, downstream \in {"ok", "raises"} :
            MWDispatch(header, fault, downstream)
                /\ UNCHANGED <<rlVars, cbVars, caVars, mmVars, cpVars>>
    \/ MWTick /\ UNCHANGED <<rlVars, cbVars, caVars, mmVars, cpVars>>

vars == <<now, rlVars, cbVars, caVars, mmVars, cpVars, mwVars>>


InitPolicy ==
    /\ now = 0
    /\ RLUnused
    /\ CBUnused
    /\ CAUnused
    /\ MMUnused
    /\ CPInit
    /\ MWUnused

InitCacheWithPolicy ==
    /\ now = 0
    /\ RLUnused
    /\ CBUnused
    /\ CAInit
    /\ MMUnused
    /\ CPInit
    /\ MWUnused

InitMiddleware ==
    /\ now = 0
    /\ RLUnused
    /\ CBUnused
    /\ CAUnused
    /\ MMUnused
    /\ CPUnused
    /\ MWInit

InitRL ==
    /\ now = 0
    /\ RLInit
    /\ CBUnused
    /\ CAUnused
    /\ MMUnused
    /\ CPUnused
    /\ MWUnused

InitRLBoth ==
    /\ now = 0
    /\ RLBothInit
    /\ CBUnused
    /\ CAUnused
    /\ MMUnused
    /\ CPUnused
    /\ MWUnused

InitRLStatus ==
    /\ now = 0
    /\ RLStatusInit
    /\ CBUnused
    /\ CAUnused
    /\ MMUnused
    /\ CPUnused
    /\ MWUnused

InitRLFaults ==
    /\ now = 0
    /\ RLFaultsInit
    /\ CBUnused
    /\ CAUnused
    /\ MMUnused
    /\ CPUnused
    /\ MWUnused

InitCB ==
    /\ now = 0
    /\ RLUnused
    /\ CBInit
    /\ CAUnused
    /\ MMUnused
    /\ CPUnused
    /\ MWUnused

InitCache ==
    /\ now = 0
    /\ RLUnused
    /\ CBUnused
    /\ CAInit
    /\ MMUnused
    /\ CPUnused
    /\ MWUnused

InitMM ==
    /\ now = 0
    /\ RLUnused
    /\ CBUnused
    /\ CAUnused
    /\ MMInit
    /\ CPUnused
    /\ MWUnused

InitHandle ==
    /\ now = 0
    /\ RLUnused
    /\ CBUnused
    /\ CAUnused
    /\ HandleInit
    /\ CPUnused
    /\ MWUnused

SpecPolicy == InitPolicy /\ [][CPNext]_vars

SpecCacheWithPolicy == InitCacheWithPolicy /\ [][CAWithPolicyNext]_vars

SpecMiddleware == InitMiddleware /\ [][MWNext]_vars

SpecRL == InitRL /\ [][RLNext]_vars

SpecRLFaults == InitRLFaults /\ [][RLFaultsNext]_vars

SpecRLStatus == InitRLStatus /\ [][RLStatusNext]_vars

SpecRLBoth == InitRLBoth /\ [][RLBothNext]_vars

SpecCB == InitCB /\ [][CBNext]_vars

SpecCache == InitCache /\ [][CANext]_vars

SpecCached == InitCache /\ [][CachedNext]_vars

SpecMM == InitMM /\ [][MMNext]_vars

SpecHandle == InitHandle /\ [][HandleNext]_vars

(***************************************************************************)
(* Claims on the rate limiter                                              *)
(***************************************************************************)
\* the remaining budget a result reports: max(0, limit - rate_limit.current)
Remaining(res) == Max0(rlArgs.limit - res.current)

\* C1: with every request of cost 1 and limit = n, once n allowed requests are
\* recorded at instants not older than window, a further check is denied;
\* requests recorded at the same clock instant count each.
C1_DeniedWhileWindowFull ==
    (rlLast.key # None /\ rlArgs.costs = {1} /\ rlLast.truth >= rlArgs.limit)
        => ~rlLast.allowed

\* C2: limit=5, window=60, successive checks on one fresh key within 10 seconds:
\* the i-th (i = 1..5) is allowed and reports remaining 5 - i, the sixth is
\* denied with remaining 0 and reset_at = the first request's timestamp + 60.
C2_SixChecks ==
    (rlLast.key # None /\ rlArgs.limit = 5 /\ rlArgs.window = 60 /\ ~rlOverlap
     /\ now <= 10)
        => LET i == rlCalls[rlLast.key]
           IN  /\ i <= 5 => rlLast.allowed /\ Remaining(rlLast) = 5 - i
               /\ i = 6 => /\ ~rlLast.allowed
                           /\ Remaining(rlLast) = 0
                           /\ rlLast.reset_at = MinOf(DOMAIN rlTruth[rlLast.key]) + 60

(***************************************************************************)
(* Claims on the circuit breaker                                           *)
(***************************************************************************)
CBAllIdle == \A p \in CBProcs : cbPc[p] = "idle"

\* a decision to try a reset is never taken while the circuit is Open and
\* reset_timeout has not elapsed since it opened
NoEarlyReset == cbEv.ev = "reset" => ~cbEv.early

CountedStreak ==
    IF cbRedis THEN (IF cbOverlap \/ cbSlow THEN 0 ELSE cbFresh) ELSE cbStreak

C4_TrialSuccessCloses ==
    /\ cbEv.ev = "short" => ~cbEv.late
    /\ (cbEv.ev = "succeeded" /\ cbEv.trial /\ cbEv.late)
            => (cbEv.st = CLOSED /\ cbEv.fails = 0)

(***************************************************************************)
(* Claims on the cache manager                                             *)
(***************************************************************************)
\* C5: a get(k) issued after set(k, v, ttl) and before ttl has elapsed, k not
\* having been deleted or cleared since, returns v; a get(k) issued once ttl
\* has elapsed returns the default, for every ttl.
C5_GetWithinTtl == caEv.op = "get" => caEv.result = caEv.want

\* C6: delete_by_tag(t) removes exactly the live entries whose most recent set
\* carried t, on the local and on the shared-store backend.
C6_DeleteByTagExact == caEv.op = "delete_by_tag" => caEv.removed = caEv.wanted

(***************************************************************************)
(* Claims about the model manager and its handles                          *)
(***************************************************************************)

\* C7: in every reachable state, under any interleaving of get_model calls
\* (unload may hand control to another caller), the pool holds at most
\* _max_cache_size handles.
C7_PoolWithinCapacity == Len(mmInstances) <= MaxCacheSize

\* C7's case: the pool is full and a caller is suspended in an eviction while
\* another caller has already registered the model it asked for
C7_Witness ==
    /\ Len(mmInstances) = MaxCacheSize
    /\ \E p \in MMProcs :
            mmPc[p] \in EvictPcs /\ mmLoc[p].id \in PoolIds(mmInstances)

\* a step removes this model id from the pool
Evicted(id) == id \in PoolIds(mmInstances) /\ id \notin PoolIds(mmInstances')

\* last_used of a registered model
LastUsed(id) == mmHeap[HandleOf(mmInstances, id)].last_used

\* C8: the handle get_model removes from a full pool is the least recently
\* requested one: it has the oldest last_used in the pool, and after requests
\* A, B, A, C it is B.
C8_EvictsLeastRecentlyUsed ==
    [][\A id \in ModelIds :
            Evicted(id) =>
                /\ id = Head(mmRecency)
                /\ \A other \in PoolIds(mmInstances) : LastUsed(id) <= LastUsed(other)
      ]_vars

\* two callers whose latest get_model calls for one model id overlapped, both
\* past get_model
Raced(p, q) ==
    /\ q \in mmLoc[p].peers
    /\ mmPc[p] \notin EvictPcs
    /\ mmPc[q] \notin EvictPcs

C10_UnloadIdempotent ==
    mmEv.op = "unload" =>
        /\ ~mmEv.error
        /\ mmEv.is = None
        /\ mmEv.was = None => mmEv.kept

\* C10's case: an unload that waited for the lock while another caller
\* unloaded the handle, and found it unloaded
C10_Witness ==
    /\ mmEv.op = "unload"
    /\ mmEv.waited
    /\ mmEv.was = None
    /\ mmEv.is = None

(***************************************************************************)
(* Further claims about the circuit breaker                                *)
(***************************************************************************)

\* C11: a successful call while Closed leaves the failure count at 0, and a
\* call moves the circuit from Closed to Open only when failure_threshold
\* failures have occurred since the last success (calls not overlapping).
C11_OpensOnConsecutiveFailures ==
    ~cbOverlap =>
        /\ (cbEv.ev = "succeeded" /\ cbEv.st = CLOSED) => cbEv.fails = 0
        /\ (cbEv.ev = "failed" /\ ~cbEv.trial /\ cbEv.st = OPEN)
                => cbStreak >= FailureThreshold

\* a trial invocation of the operation is outstanding: the caller that set
\* the circuit HalfOpen is in the operation
TrialOutstanding(p) ==
    /\ GetState = HALF_OPEN
    /\ \E q \in CBProcs \ {p} : cbPc[q] = "func" /\ cbLoc[q].trial

\* C12: a call that arrives while the circuit is HalfOpen and a trial is
\* outstanding does not invoke the operation.
C12_SingleTrial ==
    [][\A p \in CBProcs :
            (cbPc[p] = "idle" /\ TrialOutstanding(p)) => cbPc'[p] # "func"]_vars

StoredEvents(key) ==
    IF rlRedis THEN RLLive(FullKey(key))
    ELSE IF FullKey(key) \in DOMAIN rlLocal THEN rlLocal[FullKey(key)] ELSE EmptyF

\* the timestamp of a stored event
Stamp(events, e) == IF rlRedis THEN events[e] ELSE e

\* a step in which a check is denied
DenyStep == rlCalls' # rlCalls /\ ~rlLast'.allowed

Rejected == rlLast.key # None /\ ~rlLast.allowed

\* C15: a check_rate_limit during which a store operation raised does not
\* raise: it answers allowed, with current 0 and reset_at = now + window; a
\* 429 comes only from a count that, with the cost, exceeds the limit.
C15_FailOpen ==
    /\ rlLast.failed =>
            /\ rlLast.allowed
            /\ rlLast.current = 0
            /\ rlLast.reset_at = rlLast.at + rlArgs.window
    /\ Rejected => (~rlLast.failed /\ rlLast.current + rlLast.cost > rlArgs.limit)

\* C15's case: the store failed after the request had been recorded
C15_Witness ==
    /\ rlLast.failed
    /\ rlLast.at = now
    /\ now \in DOMAIN rlTruth[rlLast.key]
    /\ \A p \in RLProcs : rlPc[p] = "idle"

\* C16: given the same calls at the same clock readings, the store-backed
\* limiter answers as the local one does: the same decision, the same current
\* count and the same reset_at, whatever the costs.
C16_BackendsAgree ==
    rlMirror.done =>
        /\ rlLast.allowed = rlMirror.res.allowed
        /\ rlLast.current = rlMirror.res.current
        /\ rlLast.reset_at = rlMirror.res.reset_at

(***************************************************************************)
(* Further claims about the model manager and its handles                  *)
(***************************************************************************)

\* the handles registered in the pool
Registered == {mmInstances[i].h : i \in DOMAIN mmInstances}

\* C17: among the handles of the pool and those callers still hold, no two of
\* one model id are loaded at once, and a handle that is no longer in the pool
\* is not loaded.
C17_LoadedOnlyInPool ==
    /\ \A g, h \in DOMAIN mmHeap :
            (g # h /\ mmHeap[g].model_id = mmHeap[h].model_id)
                => ~(mmHeap[g].model = LOADED /\ mmHeap[h].model = LOADED)
    /\ \A h \in DOMAIN mmHeap \ Registered : mmHeap[h].model # LOADED

\* a step in which caller p's get_model, suspended in the victim's unload, ends
EvictionEnds(p) == mmPc[p] \in EvictPcs /\ mmPc'[p] = "idle"

\* C18: a get_model that evicts, whatever other get_model calls run during its
\* suspension, ends without an error and with its handle registered; it
\* removes at most one id from the pool, and it replaces no handle that is
\* already registered for its model id.
C18_EvictInsertAtomic ==
    [][\A p \in MMProcs : EvictionEnds(p) =>
          /\ mmLoc'[p].held # None
          /\ mmLoc'[p].held \in Registered'
          /\ Cardinality(PoolIds(mmInstances) \ PoolIds(mmInstances')) <= 1
          /\ \A id \in PoolIds(mmInstances) \cap PoolIds(mmInstances') :
                HandleOf(mmInstances', id) = HandleOf(mmInstances, id)
      ]_vars

\* C19: get_model sets the last_used of the handle it returns to the current
\* time and changes no other handle's last_used; and the model id returned
\* last is not the one evicted next while the pool holds another.
C19_ReturnedIsFreshest ==
    [][/\ \A p \in MMProcs :
            (mmLoc'[p].held # None /\ mmLoc'[p].held # mmLoc[p].held)
                => mmHeap'[mmLoc'[p].held].last_used = now
       /\ \A h \in DOMAIN mmHeap \cap DOMAIN mmHeap' :
            mmHeap'[h].last_used # mmHeap[h].last_used
                => /\ mmHeap'[h].last_used = now
                   /\ \E p \in MMProcs :
                            /\ mmLoc'[p].held = h
                            /\ mmPc[p] \in EvictPcs \cup {"idle"}
                            /\ mmPc'[p] = "idle"
                   /\ \A g \in (DOMAIN mmHeap \cap DOMAIN mmHeap') \ {h} :
                            mmHeap'[g].last_used = mmHeap[g].last_used
       /\ \A id \in ModelIds :
            (Evicted(id) /\ Len(mmInstances) > 1) => id # mmRecency[Len(mmRecency)]
      ]_vars

\* C20: right after a load that failed, the handle it ran on is not registered
\* in the pool with part of its resources constructed, its lock is free, and
\* it does not count as loaded, so the next caller's load tries again.
C20_FailedLoadLeavesNothing ==
    (mmEv.op = "load" /\ mmEv.error) =>
        /\ mmEv.h \in Registered =>
                (mmHeap[mmEv.h].tokenizer = None /\ mmHeap[mmEv.h].model = None)
        /\ mmHeap[mmEv.h].lock = FREE
        /\ mmHeap[mmEv.h].model # LOADED

(***************************************************************************)
(* Further claims about the cache manager                                  *)
(***************************************************************************)

\* C21: a call of a function wrapped with cached, made after an earlier call
\* with the same arguments has stored its result, before the ttl has run out
\* and with no deletion in between, returns the stored result and does not
\* invoke the function, whatever the result is (None and falsy values too).
C21_CachedReturnsStored ==
    (caEv.op = "cached" /\ caEv.stored) => (~caEv.invoked /\ caEv.result = caEv.want)

\* C22: set consults the policy: a key for which should_cache is false (every
\* key under strategy NONE) is never stored, so a get of it returns absent.
C22_SetConsultsPolicy ==
    (caEv.op = "get" /\ ~ShouldCacheAnswer(cp, caEv.key)) => caEv.result = None

(***************************************************************************)
(* Claims about the cache policy                                           *)
(***************************************************************************)

\* the keys tracked when the policy answered, and their last access
Tracked == AccKeys(cpEv.seen)
LastAccess(key) == AccTime(cpEv.seen, key)

\* the answer of should_cache that each strategy calls for
CacheAnswerAsStated ==
    cpEv.op = "should_cache" =>
        CASE cp.strategy = NONE -> ~cpEv.result
          [] cp.strategy = SIMPLE -> cpEv.result
          [] cp.strategy = LRU -> cpEv.result = (Cardinality(Tracked) < cp.max_size)
          [] OTHER -> TRUE

\* key is tracked and its last access is older than ttl_seconds
Aged(key) == key \in Tracked /\ cpEv.at - LastAccess(key) > cp.ttl_seconds

\* key has the oldest last access of the tracked keys
HasOldest(key) == key \in Tracked /\ \A other \in Tracked : LastAccess(key) <= LastAccess(other)

\* key is the first tracked of the keys with the oldest last access
FirstOldest(key) ==
    \E i \in DOMAIN cpEv.seen :
        /\ cpEv.seen[i].key = key
        /\ \A j \in DOMAIN cpEv.seen :
                \/ cpEv.seen[i].t < cpEv.seen[j].t
                \/ cpEv.seen[i].t = cpEv.seen[j].t /\ i <= j

\* C27 as stated: NONE never caches, SIMPLE always, LRU caches exactly while
\* fewer than max_size keys are tracked; under LRU should_evict(k) is true
\* exactly when k is tracked and is older than ttl_seconds or, max_size or more
\* keys being tracked, has the oldest last access; it is false for an
\* untracked key.
C27_DecisionsAsStated ==
    /\ CacheAnswerAsStated
    /\ (cpEv.op = "should_evict" /\ cpEv.key \notin Tracked) => ~cpEv.result
    /\ (cpEv.op = "should_evict" /\ cp.strategy = LRU) =>
            cpEv.result = (Aged(cpEv.key)
                            \/ (Cardinality(Tracked) >= cp.max_size /\ HasOldest(cpEv.key)))

\* C27, amended: as stated, but of several keys that share the oldest last
\* access should_evict is true only for the one tracked first.
C27_Decisions ==
    /\ CacheAnswerAsStated
    /\ (cpEv.op = "should_evict" /\ cpEv.key \notin Tracked) => ~cpEv.result
    /\ (cpEv.op = "should_evict" /\ cp.strategy = LRU) =>
            cpEv.result = (Aged(cpEv.key)
                            \/ (Cardinality(Tracked) >= cp.max_size /\ FirstOldest(cpEv.key)))

\* C27's case: under LRU, with the policy full, should_evict is asked about a
\* key that shares the oldest last access with a key tracked before it
C27_Witness ==
    /\ cpEv.op = "should_evict"
    /\ cp.strategy = LRU
    /\ Cardinality(Tracked) >= cp.max_size
    /\ HasOldest(cpEv.key)
    /\ ~FirstOldest(cpEv.key)
    /\ ~cpEv.result

(***************************************************************************)
(* Claims about what a rate-limit read reports and what a check records    *)
(***************************************************************************)

\* the timestamps of the events stored for a key
Stamps(key) ==
    {Stamp(StoredEvents(key), e) : e \in DOMAIN StoredEvents(key)}

\* a step in which check_rate_limit reads the usage of key
ReadStep(key) == rlCalls'[key] # rlCalls[key]

\* C23: the reset_at a read reports is the timestamp of the oldest event it
\* retains after purging plus window (now + window when it retains none), and
\* a check made at or after the reset_at the previous read of the key reported
\* for a retained event, no other check coming in between, finds that event
\* purged.
C23_ResetAt ==
    [][\A key \in RLKeys :
          ReadStep(key) =>
              /\ rlLast'.reset_at =
                    (IF Stamps(key)' = {} THEN now ELSE MinOf(Stamps(key)'))
                        + rlArgs.window
              /\ (rlLast.key = key /\ rlLast.current > 0 /\ now >= rlLast.reset_at)
                    => (rlLast.reset_at - rlArgs.window) \notin Stamps(key)'
      ]_vars

\* C25: an allowed check raises the usage the next read counts by exactly its
\* cost, for every cost >= 1 and also when several allowed checks are recorded
\* at the same clock instant: a read made before anything can have left the
\* window, every earlier check having finished, counts the costs of all of them.
C25_UsageGrowsByCost ==
    (rlLast.key # None /\ ~rlOverlap /\ rlLast.at < rlArgs.window)
        => rlLast.current = rlLast.truth

\* history: the cost of the allowed requests on key recorded less than window ago
AllowedInTrailingWindow(key) ==
    SumOver(rlTruth[key], {ts \in DOMAIN rlTruth[key] : ts > now - rlArgs.window})

\* C26: under any interleaving of concurrent check_rate_limit calls on one key
\* with one limit and window, every store call being a suspension point, the
\* total cost of the allowed requests whose timestamps lie inside one trailing
\* window never exceeds limit.
C26_NeverOverLimit ==
    \A key \in RLKeys : AllowedInTrailingWindow(key) <= rlArgs.limit

\* a step in which get_limit_status returns
StatusStep == rlStatus' # rlStatus

\* the usage the limiter holds for key inside the window that ends now: the
\* costs of the local entries not older than window, the number of the
\* store's members younger than window
UsageInWindow(key) ==
    LET ev == StoredEvents(key)
    IN  IF rlRedis
        THEN Cardinality({m \in DOMAIN ev : ev[m] > now - rlArgs.window})
        ELSE SumOver(ev, {ts \in DOMAIN ev : ts >= now - rlArgs.window})

\* an event that no read made now or later counts
OutsideWindow(key, e) ==
    LET ts == Stamp(StoredEvents(key), e)
    IN  IF rlRedis THEN ts <= now - rlArgs.window ELSE ts < now - rlArgs.window

\* C29: get_limit_status never consumes budget: it leaves every caller where
\* it is, records no request, changes no stored event, and removes only events
\* of the key it reads that already lie outside the window, so that later
\* checks decide and count as they would without it; the remaining it reports
\* is max(0, limit - the usage held for the key in the window).
C29_StatusConsumesNothing ==
    [][StatusStep =>
          /\ rlPc' = rlPc /\ rlPend' = rlPend /\ rlLast' = rlLast /\ rlTruth' = rlTruth
          /\ \A key \in RLKeys :
                /\ DOMAIN StoredEvents(key)' \subseteq DOMAIN StoredEvents(key)
                /\ \A e \in DOMAIN StoredEvents(key)' :
                        StoredEvents(key)'[e] = StoredEvents(key)[e]
                /\ \A e \in DOMAIN StoredEvents(key) \ DOMAIN StoredEvents(key)' :
                        key = rlStatus'.key /\ OutsideWindow(key, e)
                /\ UsageInWindow(key)' = UsageInWindow(key)
          /\ rlStatus'.remaining = Max0(rlArgs.limit - UsageInWindow(rlStatus'.key))
          /\ rlStatus'.current = UsageInWindow(rlStatus'.key)
      ]_vars

\* C29's case: get_limit_status has read a key that has usage in the window,
\* and a check on that key has been decided since
C29_Witness ==
    /\ rlStatus.key # None
    /\ rlStatus.current > 0
    /\ rlLast.key = rlStatus.key
    /\ rlLast.at > rlStatus.at
    /\ rlLast.current > 0

(***************************************************************************)
(* Claims about the breaker's state machine and its failure counter        *)
(***************************************************************************)

\* the changes of state the breaker is meant to make
StatedTransitions ==
    { <<CLOSED, OPEN>>, <<OPEN, HALF_OPEN>>, <<HALF_OPEN, CLOSED>>, <<HALF_OPEN, OPEN>> }

\* C24: under any interleaving of calls on one service, its state changes only
\* Closed->Open, Open->HalfOpen, HalfOpen->Closed or HalfOpen->Open (never
\* Closed->HalfOpen, never Open->Closed), and Open->HalfOpen only when at least
\* reset_timeout has elapsed since the circuit was opened.
C24_StateTransitions ==
    [][GetState' # GetState =>
          /\ <<GetState, GetState'>> \in StatedTransitions
          /\ GetState = OPEN => now - cbOpenedAt >= ResetTimeout
      ]_vars

\* a step in which _increment_failures returns a count that reaches the threshold
ReachesThreshold(p) == cbPc[p] \in {"increment", "expire"} /\ cbPc'[p] = "set_open"

\* C28: the failure count is forgotten reset_timeout after it was last
\* incremented, so failures each more than reset_timeout apart never add up to
\* the threshold, and this on the local backend exactly as on the shared store:
\* a count reaches the threshold only when the failure before it was counted
\* no more than reset_timeout earlier (calls not overlapping, each store
\* increment and its EXPIRE falling in one clock instant).
C28_CountExpires ==
    [][\A p \in CBProcs :
          (ReachesThreshold(p) /\ ~cbOverlap /\ ~cbSlow')
                => now - cbRecAt <= ResetTimeout
      ]_vars

(***************************************************************************)
(* Claims about the rate-limit middleware                                  *)
(***************************************************************************)

\* C30: a request whose per-window counter exceeds the user's rate limit is
\* answered 429 with the limit and the reset information and is not passed
\* downstream; 500 answers an infrastructure error only, never a rejection.
C30_RejectedWith429 ==
    mwEv.op = "dispatch" =>
        /\ (mwEv.counted /\ mwEv.current > mwEv.limit) =>
                /\ ~mwEv.passed
                /\ mwEv.out.kind = "raise"
                /\ mwEv.out.status = 429
                /\ mwEv.out.detail.limit = mwEv.limit
                /\ mwEv.out.detail.reset_after > 0
        /\ (mwEv.out.kind = "raise" /\ mwEv.out.status = 500) =>
                ~(mwEv.counted /\ mwEv.current > mwEv.limit)

====
